---- MODULE Spec2Model ----
(***************************************************************************)
(* A model of repo2obj (llvm/tools/repo2obj/repo2obj.cpp): the conversion  *)
(* of a repository ticket into an ELF relocatable object.  One behaviour   *)
(* of Spec is one run of main(): the position in main is pc, the store and *)
(* the ticket file are the run's inputs, and the members of the ticket are *)
(* drawn one loop iteration at a time.                                     *)
(*                                                                         *)
(* HashSpec models the hash calculator of the program repository pass      *)
(* (llvm/lib/Transforms/Utils/HashCalculator.cpp): one behaviour hashes    *)
(* two globals one after the other, each with its own memory layout, and   *)
(* keeps what each computation fed to the digest.                          *)
(***************************************************************************)
EXTENDS Integers, Sequences, FiniteSets, TLC

VARIABLES
    pc,              \* position in main()
    exitCode,        \* process exit status once the run has ended, else -1
    diag,            \* the diagnostic printed on stderr ("" when none)
    warned,          \* "Warning: name index was not found." was printed
    outOnDisk,       \* the output file exists on disk
    kept,            \* ToolOutputFile::keep() was called
    dbOpen,          \* pstore::database Db has been constructed
    ticketFile,      \* input: the bytes of the ticket file
    ticketIo,        \* input: what the file system does to the ticket reads
    outputOpens,     \* input: the output file can be opened
    store,           \* input: which indices the store holds
    Uuid,            \* UuidOrError.get()
    Magics,          \* SpecialNames {CtorName, DtorName}
    processed,       \* ticket members whose loop iteration has started
    Sections,        \* State.Sections : SectionId -> OutputSection
    created,         \* SectionIds in order of creation
    Groups,          \* State.Groups : address -> GroupInfo
    Symbols,         \* State.Symbols (name -> Value)
    OrderedSymbols,  \* result of State.Symbols.sort()
    SectionHeaders,  \* State.SectionHeaders
    OS,              \* what has been written to Out->os(), in order
    Header,          \* the Elf_Ehdr value main holds
    FileHeader,      \* the Elf_Ehdr stored at offset 0 of the output file
    OutputSections,  \* main's OutputSections array, as left by the last member
    cursor,          \* how many entries of State.Sections have been written
    symtabOut,       \* the symbol entries written to .symtab, in file order
    subjects,        \* input: the two globals to hash, each with its layout
    turn,            \* which of the two computations runs (3: both are over)
    hstep,           \* position in calculateFunctionHash / calculateVaribleHash
    Hash,            \* what the running computation has fed to Hash.update
    sn_map,          \* HashCalculator::sn_map of the running computation
    global_numbers,  \* HashCalculator::global_numbers
    work,            \* the calls still to be made, innermost first
    FnBBs,           \* calculateFunctionHash: the stack of blocks to hash
    VisitedBBs,      \* calculateFunctionHash: the blocks seen so far
    trail,           \* what the running computation did to which value
    results,         \* what the finished computations fed and numbered
    contents,        \* input: the SectionContents given to make_unique
    fstep,           \* position in Fragment::make_unique
    AllocSize,       \* make_unique: Size, the number of bytes computed
    FragmentPtr,     \* make_unique: the address of the block allocated
    OutPtr,          \* make_unique: Out, the address behind what was written
    Arr_,            \* Fragment::Arr_ : section kind -> offset
    placed,          \* the Sections constructed, in order
    sizeAssert,      \* the outcome of the final assert of make_unique
    tickets,         \* input: the members of !repo.tickets, in order
    rstep,           \* position in the loop over the ticket nodes
    reported         \* the ticket lines reported, in order

\* The state of a run of repo2obj.
mainVars == << pc, exitCode, diag, warned, outOnDisk, kept, dbOpen, ticketFile,
               ticketIo, outputOpens, store, Uuid, Magics, processed, Sections,
               created, Groups, Symbols, OrderedSymbols, SectionHeaders, OS,
               Header, FileHeader, OutputSections, cursor, symtabOut >>

\* The state of the hash calculator.
hashVars == << subjects, turn, hstep, Hash, sn_map, global_numbers, work,
               FnBBs, VisitedBBs, trail, results >>

\* The state of the components main() does not run.
\* The state of Fragment::make_unique.
fragmentVars == << contents, fstep, AllocSize, FragmentPtr, OutPtr, Arr_, placed,
                   sizeAssert >>

\* The state of the loop that adds the ticket nodes.
reportVars == << tickets, rstep, reported >>

libraryVars == << hashVars, fragmentVars, reportVars >>

vars == << mainVars, libraryVars >>

\* No hash computation is under way.
hashIdle ==
    /\ subjects = << >>
    /\ turn = 0
    /\ hstep = "idle"
    /\ Hash = << >>
    /\ sn_map = << >>
    /\ global_numbers = << >>
    /\ work = << >>
    /\ FnBBs = << >>
    /\ VisitedBBs = {}
    /\ trail = << >>
    /\ results = << >>

\* No fragment is being made.
fragmentIdle ==
    /\ contents = << >>
    /\ fstep = "idle"
    /\ AllocSize = 0
    /\ FragmentPtr = 0
    /\ OutPtr = 0
    /\ Arr_ = << >>
    /\ placed = << >>
    /\ sizeAssert = TRUE

\* No ticket node is being added.
reportIdle ==
    /\ tickets = << >>
    /\ rstep = "idle"
    /\ reported = << >>

libraryIdle == hashIdle /\ fragmentIdle /\ reportIdle

-----------------------------------------------------------------------------
(* Bounds of the model. *)

\* The longest ticket (number of ticket members) a run processes.
MaxMembers == 3

-----------------------------------------------------------------------------
(* Small helpers. *)

Range(s) == { s[i] : i \in DOMAIN s }

Last(s) == s[Len(s)]

Max(a, b) == IF a >= b THEN a ELSE b

\* The position of x in the sequence s (x occurs in s).
IndexOf(s, x) == CHOOSE i \in DOMAIN s : s[i] = x

-----------------------------------------------------------------------------
(* The ticket file.  A file is the sequence of its bytes. *)

\* sizeof(std::uint64_t) + pstore::uuid::elements
TicketFileSize == 24

\* The signature "RepoUuid", as ASCII codes.
RepoUuid == << 82, 101, 112, 111, 85, 117, 105, 100 >>

\* "RepoUuix": a file signed with a wrong last letter.
RepoUuix == << 82, 101, 112, 111, 85, 117, 105, 120 >>

\* Two UUID payloads: the first is a key of the ticket index, the second not.
UuidStored  == [ i \in 1..16 |-> 15 * i ]
UuidMissing == [ i \in 1..16 |-> 200 - i ]

\* The ticket files a run may be given: both signatures, payloads of 15, 16
\* and 17 bytes (files of 23, 24 and 25 bytes), and the empty file.
TicketFiles ==
    { sig \o body : sig \in { RepoUuid, RepoUuix },
                    body \in { UuidStored, UuidMissing,
                               SubSeq(UuidStored, 1, 15),
                               UuidStored \o << 7 >> } }
    \cup { << >> }

\* What the file system may do to the reads of getTicketFileUuid.
IoOutcomes == { "ok", "open_failed", "status_failed", "read_failed",
                "close_failed" }

\* StringRef::slice(Start, End): the bytes at offsets Start .. End-1.
slice(Contents, Start, End) == SubSeq(Contents, Start + 1, End)

\* StringRef::substr(Start, N): N bytes from offset Start.
substr(Contents, Start, N) == SubSeq(Contents, Start + 1, Start + N)

\* A size test that only asks for enough bytes.
SizeAtLeast(File) == Len(File) >= TicketFileSize

\* The size test of getTicketFileUuid.
SizeAccepted(File) == Len(File) = TicketFileSize

\* The signature test of getTicketFileUuid.
SignatureAccepted(Contents) == slice(Contents, 0, 8) = RepoUuid

\* The bytes getTicketFileUuid copies into the returned uuid.
UuidBytes(Contents) == substr(Contents, 8, 16)

\* getTicketFileUuid(TicketPath): what it does for a file and an outcome of
\* the file system calls, in the order of the code: open, status, the size
\* test, read, close, the signature test, the copy of the uuid.
\*   [kind |-> "error"]  error() was called (the process exits),
\*   [kind |-> "errc"]   a std::error_code is returned,
\*   [kind |-> "uuid"]   the uuid is returned.
getTicketFileUuid(File, Io) ==
    IF Io = "open_failed" \/ Io = "status_failed"
    THEN [ kind |-> "errc", uuid |-> << >> ]
    ELSE IF ~ SizeAccepted(File)
    THEN [ kind |-> "error", uuid |-> << >> ]
    ELSE IF Io = "read_failed" \/ Io = "close_failed"
    THEN [ kind |-> "errc", uuid |-> << >> ]
    ELSE IF ~ SignatureAccepted(File)
    THEN [ kind |-> "error", uuid |-> << >> ]
    ELSE [ kind |-> "uuid", uuid |-> UuidBytes(File) ]

-----------------------------------------------------------------------------
(* The store (pstore::database) and what it holds. *)

\* pstore::address::null()
null == 0

\* The strings of the store; a string's address is its position here.
NameStrings == << "bar", "cmn", "ext", "foo", "llvm.global_ctors",
                  "llvm.global_dtors", "loc", "main" >>

Addresses == 1 .. Len(NameStrings)

\* getString(Db, Addr)
getString(Addr) == NameStrings[Addr]

\* The address at which a string of the store lives.
AddressOf(str) == IndexOf(NameStrings, str)

\* The stores a run may be given: with or without each of the ticket index
\* and the fragment index, and with no name index ("none") or a name index
\* holding a set of strings.
NameIndexes ==
    { {}, { "llvm.global_ctors" },
      { "llvm.global_ctors", "llvm.global_dtors" } }

Stores ==
    { st \in [ hasTicketIndex : BOOLEAN, hasFragmentIndex : BOOLEAN,
               hasNameIndex : BOOLEAN, names : NameIndexes ] :
        ~ st.hasNameIndex => st.names = {} }

\* The keys of the ticket index.
TicketIndex == { UuidStored }

\* The section kinds of a fragment, in the order of the enumeration.
SectionTypes ==
    << "BSS", "Common", "Data", "RelRo", "Text", "Mergeable1ByteCString",
       "Mergeable2ByteCString", "Mergeable4ByteCString", "MergeableConst4",
       "MergeableConst8", "MergeableConst16", "MergeableConst32",
       "MergeableConst", "ReadOnly", "ThreadBSS", "ThreadData", "ThreadLocal",
       "Metadata" >>

\* ELFSectionType: the fragment section kinds and the two array sections.
ELFSectionTypes == SectionTypes \o << "InitArray", "FiniArray" >>

\* details::SectionAttributes: the ELF sh_type of an output section, for the
\* ELF section types that have an entry.
SectionAttributes ==
    [ t \in { "BSS", "Data", "Text", "ReadOnly", "ThreadBSS", "ThreadData",
              "InitArray", "FiniArray" } |->
        CASE t = "BSS"        -> [ name |-> ".bss",        type |-> "SHT_NOBITS" ]
          [] t = "Data"       -> [ name |-> ".data",       type |-> "SHT_PROGBITS" ]
          [] t = "Text"       -> [ name |-> ".text",       type |-> "SHT_PROGBITS" ]
          [] t = "ReadOnly"   -> [ name |-> ".rodata",     type |-> "SHT_PROGBITS" ]
          [] t = "ThreadBSS"  -> [ name |-> ".tbss",       type |-> "SHT_NOBITS" ]
          [] t = "ThreadData" -> [ name |-> ".tdata",      type |-> "SHT_PROGBITS" ]
          [] t = "InitArray"  -> [ name |-> ".init_array", type |-> "SHT_INIT_ARRAY" ]
          [] t = "FiniArray"  -> [ name |-> ".fini_array", type |-> "SHT_FINI_ARRAY" ] ]

\* The fragment index: digest -> fragment.  A fragment maps the section kinds
\* it holds to sections; a section is its data size, its alignment and the
\* names its external fixups refer to.  (Payload bytes and internal fixups
\* select no output section, symbol or group and are left out.)
FragmentIndex ==
    [ d \in { "d_text", "d_textx", "d_textdata", "d_bss", "d_bssdata",
              "d_data" } |->
        CASE d = "d_text" ->
               [ k \in { "Text" } |->
                   [ size |-> 4, align |-> 4, xfixups |-> << >> ] ]
          [] d = "d_textx" ->
               [ k \in { "Text" } |->
                   [ size |-> 4, align |-> 16,
                     xfixups |-> << AddressOf("bar") >> ] ]
          [] d = "d_textdata" ->
               [ k \in { "Text", "Data" } |->
                   IF k = "Text"
                   THEN [ size |-> 6, align |-> 4, xfixups |-> << >> ]
                   ELSE [ size |-> 8, align |-> 8,
                          xfixups |-> << AddressOf("ext") >> ] ]
          [] d = "d_bss" ->
               [ k \in { "BSS" } |->
                   [ size |-> 16, align |-> 8, xfixups |-> << >> ] ]
          [] d = "d_bssdata" ->
               [ k \in { "BSS", "Data" } |->
                   [ size |-> 8, align |-> 8, xfixups |-> << >> ] ]
          [] d = "d_data" ->
               [ k \in { "Data" } |->
                   [ size |-> 8, align |-> 1, xfixups |-> << >> ] ] ]

\* Fragment::num_sections()
num_sections(Fragment) == Cardinality(DOMAIN Fragment)

\* Fragment::has_section(Kind)
has_section(Fragment, Kind) == Kind \in DOMAIN Fragment

\* Fragment->sections().get_indices(): the kinds the fragment holds, in the
\* order of the enumeration.
get_indices(Fragment) ==
    SelectSeq(SectionTypes, LAMBDA k : k \in DOMAIN Fragment)

\* The ticket members a ticket is made of: (name, digest, linkage).
TM(name, digest, linkage) ==
    [ name |-> AddressOf(name), digest |-> digest, linkage |-> linkage ]

TicketMembers ==
    { TM("foo",  "d_text",     "linkonce"),
      TM("foo",  "d_textx",    "linkonce"),
      TM("foo",  "d_textdata", "linkonce"),
      TM("bar",  "d_text",     "linkonce"),
      TM("bar",  "d_text",     "external"),
      TM("main", "d_textdata", "external"),
      TM("loc",  "d_textx",    "internal"),
      TM("llvm.global_ctors", "d_textdata", "appending"),
      TM("llvm.global_dtors", "d_data",     "appending"),
      TM("cmn",  "d_bss",      "common"),
      TM("cmn",  "d_bssdata",  "common"),
      TM("cmn",  "d_data",     "common"),
      TM("bar",  "d_absent",   "external") }

-----------------------------------------------------------------------------
(* Finite maps (std::map), as functions. *)

EmptyMap == << >>

Put(f, k, v) == [ x \in (DOMAIN f) \cup { k } |-> IF x = k THEN v ELSE f[x] ]

\* The value x rounded up to a multiple of the alignment a.
aligned(x, a) == ((x + a - 1) \div a) * a

-----------------------------------------------------------------------------
(* SymbolTable<ELFT> and StringTable.  The table is the sequence of its     *)
(* entries in order of insertion; an entry is found by its name.            *)

\* The "no output section" argument of insertSymbol (nullptr).
NoSection == << "none", null >>

\* The table's entry for Name, as an index into the table (0 when absent).
symbolPos(Syms, Name) ==
    IF \E i \in DOMAIN Syms : Syms[i].name = Name
    THEN CHOOSE i \in DOMAIN Syms : Syms[i].name = Name
    ELSE 0

\* SymbolTable::findSymbol(Name)
findSymbol(Syms, Name) == Syms[symbolPos(Syms, Name)]

\* SymbolTable::insertSymbol(Name, Section, Offset, Size, Linkage): a
\* definition.  The table holds one entry per name: a new name is appended,
\* a name so far only referred to becomes defined, and an existing definition
\* is kept.
insertSymbol(Syms, Name, Section, Offset, Size, Linkage) ==
    LET def == [ name |-> Name, defined |-> TRUE, section |-> Section,
                 offset |-> Offset, size |-> Size, linkage |-> Linkage,
                 Index |-> 0 ]
        i == symbolPos(Syms, Name)
    IN  IF i = 0 THEN Append(Syms, def)
        ELSE IF ~ Syms[i].defined THEN [ Syms EXCEPT ![i] = def ]
        ELSE Syms

\* SymbolTable::insertSymbol(Name): a reference (an undefined symbol).
insertReference(Syms, Name) ==
    IF symbolPos(Syms, Name) # 0 THEN Syms
    ELSE Append(Syms, [ name |-> Name, defined |-> FALSE,
                        section |-> NoSection, offset |-> 0, size |-> 0,
                        linkage |-> "external", Index |-> 0 ])

\* The ELF binding of an entry: STB_LOCAL for a definition of internal or
\* private linkage.
isLocal(Sym) == Sym.defined /\ Sym.linkage \in { "internal", "private" }

\* SymbolTable::sort(): the entries of local binding before all others (the
\* order of insertion kept within each class), each given its symbol table
\* index; index 0 is the null symbol.
sort(Syms) ==
    LET ordered == SelectSeq(Syms, isLocal)
                   \o SelectSeq(Syms, LAMBDA y : ~ isLocal(y))
    IN  [ i \in DOMAIN ordered |-> [ ordered[i] EXCEPT !.Index = i ] ]

\* SymbolTable::firstNonLocal(OrderedSymbols): one more than the symbol table
\* index of the last local symbol.
firstNonLocal(Ordered) ==
    IF \E i \in DOMAIN Ordered : ~ isLocal(Ordered[i])
    THEN (CHOOSE i \in DOMAIN Ordered :
             /\ ~ isLocal(Ordered[i])
             /\ \A j \in 1 .. (i - 1) : isLocal(Ordered[j]))
    ELSE Len(Ordered) + 1

\* The null symbol, entry 0 of every symbol table.
NullSymbol ==
    [ name |-> "", defined |-> FALSE, section |-> NoSection, offset |-> 0,
      size |-> 0, linkage |-> "none", Index |-> 0 ]

\* SymbolTable::write(OS, OrderedSymbols): the entries as written to the
\* file, the null symbol first; entry i of the file is element i + 1 here.
symbolsWritten(Ordered) == << NullSymbol >> \o Ordered

\* The binding written for an entry of the file.
binding(Entry) ==
    IF Entry = NullSymbol \/ isLocal(Entry) THEN "STB_LOCAL" ELSE "STB_GLOBAL"

-----------------------------------------------------------------------------
(* OutputSection<ELFT> and GroupInfo<ELFT>. *)

\* OutputSection(Db, Id)
OutputSection(Id) ==
    [ Id |-> Id, contributions |-> << >>, SectionSize |-> 0, Align |-> 1,
      relocations |-> << >>, group |-> null, index |-> 0 ]

\* GroupInfo(IdentifyingSymbol)
GroupInfo(Name) ==
    [ IdentifyingSymbol |-> Name, Members |-> << >>, SectionIndex |-> 0 ]

\* OutputSection::alignedContributionSize(Alignment): where the next
\* contribution, padded to Alignment, would start.
alignedContributionSize(Sec, Alignment) == aligned(Sec.SectionSize, Alignment)

\* OutputSection::numRelocations()
numRelocations(Sec) == Len(Sec.relocations)

\* OutputSection::attachToGroup(Group)
attachToGroup(Sec, GroupKey) == [ Sec EXCEPT !.group = GroupKey ]

\* The references append() inserts for the external fixups of a section.
RECURSIVE insertReferences(_, _)
insertReferences(Syms, xfixups) ==
    IF xfixups = << >> THEN Syms
    ELSE insertReferences(insertReference(Syms, getString(Head(xfixups))),
                          Tail(xfixups))

\* OutputSection::append(TM, SectionData, Symbols, OutputSections): the
\* section after the contribution was appended behind its alignment padding.
\* Member is the position of TM in the ticket, Kind the fragment section kind.
appendSection(Sec, Member, Tm, Kind, Data) ==
    LET start == aligned(Sec.SectionSize, Data.align)
    IN  [ Sec EXCEPT
            !.contributions =
                Append(@, [ member |-> Member, name |-> Tm.name,
                            linkage |-> Tm.linkage, kind |-> Kind,
                            offset |-> start, size |-> Data.size ]),
            !.SectionSize = start + Data.size,
            !.Align = Max(@, Data.align),
            !.relocations =
                @ \o [ i \in DOMAIN Data.xfixups |->
                         [ symbol |-> getString(Data.xfixups[i]),
                           offset |-> start ] ] ]

\* OutputSection::append: the symbol table after append() inserted the ticket
\* member's symbol, at the start of its contribution, and a reference for
\* every name an external fixup refers to.
appendSymbols(Syms, Sec, Tm, Data) ==
    insertReferences(
        insertSymbol(Syms, getString(Tm.name), Sec.Id,
                     aligned(Sec.SectionSize, Data.align), Data.size,
                     Tm.linkage),
        Data.xfixups)

-----------------------------------------------------------------------------
(* main(): the pieces of the loop over the ticket members. *)

\* SpecialNames::findString(NameIndex, str)
findString(NameIndex, str) ==
    IF str \in NameIndex THEN AddressOf(str) ELSE null

\* SpecialNames::initialize(Db): the two addresses, null without a name index.
SpecialNames(St) ==
    IF ~ St.hasNameIndex
    THEN [ CtorName |-> null, DtorName |-> null ]
    ELSE [ CtorName |-> findString(St.names, "llvm.global_ctors"),
           DtorName |-> findString(St.names, "llvm.global_dtors") ]

\* SpecialNames::initialize(Db) prints its warning.
NameIndexWarning(St) == ~ St.hasNameIndex

\* A mapping that sends both special names to .init_array.
getELFSectionTypeCtorOnly(T, Name, M) ==
    IF Name = M.CtorName \/ Name = M.DtorName THEN "InitArray" ELSE T

\* getELFSectionType(T, Name, Magics)
getELFSectionType(T, Name, M) ==
    IF Name = M.CtorName THEN "InitArray"
    ELSE IF Name = M.DtorName THEN "FiniArray"
    ELSE T

\* TM.linkage == linkage_type::linkonce
IsLinkOnce(Tm) == Tm.linkage = "linkonce"

\* A discriminator that is always null.
NoDiscriminator(Tm) == null

\* IsLinkOnce ? TM.name : pstore::address::null()
Discriminator(Tm) == IF IsLinkOnce(Tm) THEN Tm.name ELSE null

\* FragmentIndex->find(TM.digest) != FragmentIndex->end()
FragmentFound(Tm) == Tm.digest \in DOMAIN FragmentIndex

\* A test that only asks for a BSS section.
AnyBSS(Fragment) == has_section(Fragment, "BSS")

\* The test a fragment of a common symbol must pass.
SoleBSS(Fragment) ==
    ~ (num_sections(Fragment) # 1 \/ ~ has_section(Fragment, "BSS"))

\* The insertSymbol call made for a member of common linkage.
insertCommonSymbol(Syms, Tm, Fragment) ==
    insertSymbol(Syms, getString(Tm.name), NoSection, 0,
                 Fragment["BSS"].size, Tm.linkage)

\* A test that forgets DidInsert.
JoinsGroupAlways(DidInsert, Tm) == IsLinkOnce(Tm)

\* if (DidInsert && IsLinkOnce): the section joins the member's group.
JoinsGroup(DidInsert, Tm) == DidInsert /\ IsLinkOnce(Tm)

\* The body of the first loop over a fragment's sections, for section kind
\* Key.  st holds Sections, created, Groups and the OutputSections array.
CreateSection(st, Tm, Fragment, Key, M) ==
    LET Id        == << getELFSectionType(Key, Tm.name, M), Discriminator(Tm) >>
        DidInsert == Id \notin DOMAIN st.Sections
        Secs1     == IF DidInsert THEN Put(st.Sections, Id, OutputSection(Id))
                     ELSE st.Sections
        join      == JoinsGroup(DidInsert, Tm)
        Grps1     == IF join /\ Tm.name \notin DOMAIN st.Groups
                     THEN Put(st.Groups, Tm.name, GroupInfo(Tm.name))
                     ELSE st.Groups
        Grps2     == IF join
                     THEN [ Grps1 EXCEPT ![Tm.name].Members = Append(@, Id) ]
                     ELSE Grps1
        Secs2     == IF join
                     THEN [ Secs1 EXCEPT ![Id] = attachToGroup(@, Tm.name) ]
                     ELSE Secs1
    IN  [ Sections |-> Secs2,
          created  |-> IF DidInsert THEN Append(st.created, Id) ELSE st.created,
          Groups   |-> Grps2,
          OutputSections |->
              Put(st.OutputSections, Key,
                  [ section |-> Id,
                    offset  |-> alignedContributionSize(
                                    Secs2[Id], Fragment[Key].align) ]) ]

\* The first loop: CreateSection for every section of the fragment.
RECURSIVE CreateSections(_, _, _, _, _)
CreateSections(st, Tm, Fragment, Keys, M) ==
    IF Keys = << >> THEN st
    ELSE CreateSections(CreateSection(st, Tm, Fragment, Head(Keys), M),
                        Tm, Fragment, Tail(Keys), M)

\* The body of the second loop: OutputSections[Key].section()->append(...).
\* st holds Sections and Symbols.
AppendSection(st, Member, Tm, Fragment, Key, Infos) ==
    LET Id  == Infos[Key].section
        Sec == st.Sections[Id]
    IN  [ Sections |-> [ st.Sections EXCEPT
                           ![Id] = appendSection(Sec, Member, Tm, Key,
                                                 Fragment[Key]) ],
          Symbols  |-> appendSymbols(st.Symbols, Sec, Tm, Fragment[Key]) ]

\* The second loop: AppendSection for every section of the fragment.
RECURSIVE AppendSections(_, _, _, _, _, _)
AppendSections(st, Member, Tm, Fragment, Keys, Infos) ==
    IF Keys = << >> THEN st
    ELSE AppendSections(
             AppendSection(st, Member, Tm, Fragment, Head(Keys), Infos),
             Member, Tm, Fragment, Tail(Keys), Infos)

-----------------------------------------------------------------------------
(* ELFState: the section header table, the groups and the file. *)

\* SectionIndices::Null, StringTab, SymTab are 0, 1, 2; the header of section
\* index i is element i + 1 of SectionHeaders.  owner is not a field of
\* Elf_Shdr: it names the group or output section a header was made for.
SectionHeader(name, type, link, info, owner) ==
    [ sh_name |-> name, sh_type |-> type, sh_link |-> link, sh_info |-> info,
      sh_offset |-> 0, sh_size |-> 0, owner |-> owner ]

\* The standard sections with .symtab before .strtab.
initStandardSectionsSymTabFirst(Headers) ==
    Headers \o << SectionHeader("", "SHT_NULL", 0, 0, null),
                  SectionHeader(".symtab", "SHT_SYMTAB", 1, 0, null),
                  SectionHeader(".strtab", "SHT_STRTAB", 0, 0, null) >>

\* ELFState::initStandardSections(): the null section, .strtab and .symtab.
initStandardSections(Headers) ==
    Headers \o << SectionHeader("", "SHT_NULL", 0, 0, null),
                  SectionHeader(".strtab", "SHT_STRTAB", 0, 0, null),
                  SectionHeader(".symtab", "SHT_SYMTAB", 1, 0, null) >>

\* ELFState::initELFHeader(Header): the fields patched later and e_shstrndx.
initELFHeader == [ e_shoff |-> 0, e_shnum |-> 0, e_shstrndx |-> 1 ]

\* OS.tell(): the offset behind the last write.
tell(Out) == IF Out = << >> THEN 0 ELSE Last(Out).at + Last(Out).size

\* A write of size bytes at the current offset padded to align.
writeAligned(Out, what, align, size) ==
    Append(Out, [ what |-> what, at |-> aligned(tell(Out), align),
                  size |-> size ])

\* The order of std::map<SectionId, ...>: by ELF section type, then by
\* discriminator.
SectionIdLess(a, b) ==
    \/ IndexOf(ELFSectionTypes, a[1]) < IndexOf(ELFSectionTypes, b[1])
    \/ a[1] = b[1] /\ a[2] < b[2]

\* The keys of State.Sections in the order in which they were inserted.
InsertionOrder(Ids) == created

\* The keys of State.Sections in iteration order.
RECURSIVE SortedIds(_)
SortedIds(Ids) ==
    IF Ids = {} THEN << >>
    ELSE LET m == CHOOSE x \in Ids : \A y \in Ids \ { x } : SectionIdLess(x, y)
         IN  << m >> \o SortedIds(Ids \ { m })

\* The keys of State.Groups (addresses) in iteration order.
RECURSIVE SortedAddresses(_)
SortedAddresses(As) ==
    IF As = {} THEN << >>
    ELSE LET m == CHOOSE x \in As : \A y \in As : x <= y
         IN  << m >> \o SortedAddresses(As \ { m })

\* A guard that lets every call build a header.
AlwaysGroupHeader(GI) == TRUE

\* The guard of ELFState::buildGroupSection.
NeedsGroupHeader(GI) == GI.SectionIndex = 0

\* ELFState::buildGroupSection(Db, GI): the section header table after it.
buildGroupHeaders(Headers, Syms, GI) ==
    IF NeedsGroupHeader(GI)
    THEN Append(Headers,
                SectionHeader(".group", "SHT_GROUP", 2,
                    findSymbol(Syms, getString(GI.IdentifyingSymbol)).Index,
                    GI.IdentifyingSymbol))
    ELSE Headers

\* buildGroupSection without the assignment to GI.SectionIndex.
buildGroupInfoUnrecorded(Headers, GI) == GI

\* ELFState::buildGroupSection(Db, GI): the group after it.
buildGroupInfo(Headers, GI) ==
    IF NeedsGroupHeader(GI)
    THEN [ GI EXCEPT !.SectionIndex = Len(Headers) ]
    ELSE GI

\* OutputSection::write(OS, Strings, back_inserter(SectionHeaders)): the
\* headers appended for a section of index Index: one for the payload, placed
\* where the payload was written, and a .rela sibling when the section has
\* relocations.
sectionHeadersWritten(Headers, Out, Sec, Index) ==
    LET attr    == SectionAttributes[Sec.Id[1]]
        payload == [ SectionHeader(attr.name, attr.type, 0, 0, Sec.Id)
                     EXCEPT !.sh_offset = aligned(tell(Out), Sec.Align),
                            !.sh_size   = Sec.SectionSize ]
        bytes   == IF attr.type = "SHT_NOBITS" THEN 0 ELSE Sec.SectionSize
        relaAt  == aligned(aligned(tell(Out), Sec.Align) + bytes, 8)
        rela    == [ SectionHeader(".rela" \o attr.name, "SHT_RELA", 2, Index,
                                   Sec.Id)
                     EXCEPT !.sh_offset = relaAt,
                            !.sh_size   = 24 * numRelocations(Sec) ]
    IN  IF numRelocations(Sec) > 0
        THEN Headers \o << payload, rela >>
        ELSE Append(Headers, payload)

\* OutputSection::write: the file after the payload and the relocations.
sectionBytesWritten(Out, Sec) ==
    LET attr  == SectionAttributes[Sec.Id[1]]
        bytes == IF attr.type = "SHT_NOBITS" THEN 0 ELSE Sec.SectionSize
        Out1  == writeAligned(Out, << "section", Sec.Id >>, Sec.Align, bytes)
    IN  IF numRelocations(Sec) > 0
        THEN writeAligned(Out1, << "rela", Sec.Id >>, 8,
                          24 * numRelocations(Sec))
        ELSE Out1

\* The words of a group whose members' .rela siblings are left out.
RECURSIVE groupWordsNoRela(_, _)
groupWordsNoRela(Members, Secs) ==
    IF Members = << >> THEN << >>
    ELSE << Secs[Head(Members)].index >>
             \o groupWordsNoRela(Tail(Members), Secs)

\* The words ELFState::writeGroupSections writes for one group: GRP_COMDAT,
\* then for every member its section index and, when it has relocations, the
\* index after it.
RECURSIVE groupWords(_, _)
groupWords(Members, Secs) ==
    IF Members = << >> THEN << >>
    ELSE LET SectionIndex == Secs[Head(Members)].index
         IN  (IF numRelocations(Secs[Head(Members)]) > 0
              THEN << SectionIndex, SectionIndex + 1 >>
              ELSE << SectionIndex >>)
             \o groupWords(Tail(Members), Secs)

\* ELFState::writeGroupSections(OS), for the groups Keys in order.  st holds
\* the file (OS) and the section header table (SectionHeaders).
RECURSIVE writeGroupSections(_, _, _, _)
writeGroupSections(st, Keys, Grps, Secs) ==
    IF Keys = << >> THEN st
    ELSE LET G        == Grps[Head(Keys)]
             words    == << "GRP_COMDAT" >> \o groupWords(G.Members, Secs)
             StartPos == aligned(tell(st.OS), 4)
             size     == Len(words) * 4
         IN  writeGroupSections(
                 [ OS |-> Append(st.OS,
                                 [ what |-> << "group", Head(Keys) >>,
                                   at |-> StartPos, size |-> size,
                                   words |-> words ]),
                   SectionHeaders |->
                       [ st.SectionHeaders EXCEPT
                           ![G.SectionIndex + 1].sh_offset = StartPos,
                           ![G.SectionIndex + 1].sh_size   = size ] ],
                 Tail(Keys), Grps, Secs)

\* The size of a string table holding the strings of Strs: a leading null
\* byte, then every string with its terminator.
RECURSIVE stringTableSize(_)
stringTableSize(Strs) ==
    IF Strs = {} THEN 1
    ELSE LET x == CHOOSE y \in Strs : TRUE
         IN  Len(x) + 1 + stringTableSize(Strs \ { x })

\* The strings State.Strings holds when it is written: the names of the
\* section headers and of the symbols.
stringsHeld(Headers, Syms) ==
    ({ Headers[i].sh_name : i \in DOMAIN Headers }
        \cup { Syms[i].name : i \in DOMAIN Syms }) \ { "" }

\* The symbol table with the indices sort() assigned to its entries.
withIndices(Syms, Ordered) ==
    [ i \in DOMAIN Syms |->
        [ Syms[i] EXCEPT !.Index = findSymbol(Ordered, Syms[i].name).Index ] ]

-----------------------------------------------------------------------------
(* The run of main(). *)

inputs == << ticketFile, ticketIo, outputOpens, store >>

elfState == << Sections, created, Groups, Symbols, OrderedSymbols,
               SectionHeaders, OS, Header, FileHeader, OutputSections, cursor,
               symtabOut >>

Init ==
    /\ pc = "open_output"
    /\ exitCode = -1
    /\ diag = ""
    /\ warned = FALSE
    /\ outOnDisk = FALSE
    /\ kept = FALSE
    /\ dbOpen = FALSE
    /\ ticketFile \in TicketFiles
    /\ ticketIo \in IoOutcomes
    /\ outputOpens \in BOOLEAN
    /\ store \in Stores
    /\ Uuid = << >>
    /\ Magics = [ CtorName |-> null, DtorName |-> null ]
    /\ processed = << >>
    /\ Sections = EmptyMap
    /\ created = << >>
    /\ Groups = EmptyMap
    /\ Symbols = << >>
    /\ OrderedSymbols = << >>
    /\ SectionHeaders = << >>
    /\ OS = << >>
    /\ Header = initELFHeader
    /\ FileHeader = << >>
    /\ OutputSections = EmptyMap
    /\ cursor = 0
    /\ symtabOut = << >>
    /\ libraryIdle

\* error(Message): the message is printed and exit(EXIT_FAILURE) ends the
\* process.  exit() destroys no object of main, so the ToolOutputFile's
\* destructor does not run and the file system is left as it is.
error(Message) ==
    /\ pc' = "exited"
    /\ exitCode' = 1
    /\ diag' = Message
    /\ UNCHANGED << outOnDisk, kept >>

\* ~ToolOutputFile(): the file is deleted unless keep() was called.
fileAfterDestructor(onDisk, keepCalled) == onDisk /\ keepCalled

\* return Code from main: the objects of main are destroyed, Out among them.
return(Code, Message) ==
    /\ pc' = "returned"
    /\ exitCode' = Code
    /\ diag' = Message
    /\ outOnDisk' = fileAfterDestructor(outOnDisk, kept)
    /\ UNCHANGED kept

\* Out(new ToolOutputFile(OutputFilename, EC, F_None)) and the test of EC.
OpenOutput ==
    /\ pc = "open_output"
    /\ IF outputOpens
       THEN /\ outOnDisk' = TRUE
            /\ pc' = "read_ticket"
            /\ UNCHANGED << exitCode, diag, kept >>
       ELSE error("repo2obj: Error opening")
    /\ UNCHANGED << warned, dbOpen, inputs, libraryVars, Uuid, Magics, processed, elfState >>

\* UuidOrError = getTicketFileUuid(TicketPath) and the test of the result.
ReadTicket ==
    /\ pc = "read_ticket"
    /\ LET r == getTicketFileUuid(ticketFile, ticketIo)
       IN  CASE r.kind = "error" ->
                  /\ error("was not a Repo ticket file")
                  /\ UNCHANGED Uuid
             [] r.kind = "errc" ->
                  /\ return(1, "Error: ticket file")
                  /\ UNCHANGED Uuid
             [] r.kind = "uuid" ->
                  /\ Uuid' = r.uuid
                  /\ pc' = "ticket_index"
                  /\ UNCHANGED << exitCode, diag, outOnDisk, kept >>
    /\ UNCHANGED << warned, dbOpen, inputs, libraryVars, Magics, processed, elfState >>

\* !TicketIndex
TicketIndexMissing(St) == ~ St.hasTicketIndex

\* A test of the fragment index that never fails.
FragmentIndexUnchecked(St) == FALSE

\* !FragmentIndex
FragmentIndexMissing(St) == ~ St.hasFragmentIndex

\* A lookup whose miss goes unnoticed.
TicketNeverMissing(Id) == FALSE

\* TicketPos == TicketIndex->end()
TicketMissing(Id) == Id \notin TicketIndex

\* pstore::database Db(...), get_ticket_index(Db) and the test of the result.
GetTicketIndex ==
    /\ pc = "ticket_index"
    /\ dbOpen' = TRUE
    /\ IF TicketIndexMissing(store)
       THEN return(1, "Error: ticket index was not found.")
       ELSE /\ pc' = "fragment_index"
            /\ UNCHANGED << exitCode, diag, outOnDisk, kept >>
    /\ UNCHANGED << warned, inputs, libraryVars, Uuid, Magics, processed, elfState >>

\* get_digest_index(Db) and the test of the result.
GetFragmentIndex ==
    /\ pc = "fragment_index"
    /\ IF FragmentIndexMissing(store)
       THEN return(1, "Error: fragment index was not found.")
       ELSE /\ pc' = "find_ticket"
            /\ UNCHANGED << exitCode, diag, outOnDisk, kept >>
    /\ UNCHANGED << warned, dbOpen, inputs, libraryVars, Uuid, Magics, processed, elfState >>

\* TicketIndex->find(Uuid) and the test of the result.
FindTicket ==
    /\ pc = "find_ticket"
    /\ IF TicketMissing(Uuid)
       THEN return(1, "Error: ticket was not found.")
       ELSE /\ pc' = "names"
            /\ UNCHANGED << exitCode, diag, outOnDisk, kept >>
    /\ UNCHANGED << warned, dbOpen, inputs, libraryVars, Uuid, Magics, processed, elfState >>

\* Magics.initialize(Db); ELFState State(Db).
InitializeNames ==
    /\ pc = "names"
    /\ Magics' = SpecialNames(store)
    /\ warned' = NameIndexWarning(store)
    /\ pc' = "members"
    /\ UNCHANGED << exitCode, diag, outOnDisk, kept, dbOpen, inputs, libraryVars, Uuid,
                    processed, elfState >>

\* One iteration of the loop over the ticket members, for member Tm.
ProcessMember(Tm) ==
    /\ pc = "members"
    /\ Len(processed) < MaxMembers
    /\ processed' = Append(processed, Tm)
    /\ IF ~ FragmentFound(Tm)
       THEN /\ return(1, "Error: fragment was not found.")
            /\ UNCHANGED << Sections, created, Groups, Symbols, OutputSections >>
       ELSE LET Fragment == FragmentIndex[Tm.digest]
                Keys     == get_indices(Fragment)
            IN  IF Tm.linkage = "common"
                THEN IF ~ SoleBSS(Fragment)
                     THEN /\ error("did not contain a sole BSS section")
                          /\ OutputSections' = EmptyMap
                          /\ UNCHANGED << Sections, created, Groups, Symbols >>
                     ELSE /\ Symbols' = insertCommonSymbol(Symbols, Tm, Fragment)
                          /\ OutputSections' = EmptyMap
                          /\ UNCHANGED << pc, exitCode, diag, outOnDisk, kept,
                                          Sections, created, Groups >>
                ELSE LET st1 == CreateSections(
                                    [ Sections |-> Sections,
                                      created |-> created,
                                      Groups |-> Groups,
                                      OutputSections |-> EmptyMap ],
                                    Tm, Fragment, Keys, Magics)
                         st2 == AppendSections(
                                    [ Sections |-> st1.Sections,
                                      Symbols |-> Symbols ],
                                    Len(processed) + 1, Tm, Fragment, Keys,
                                    st1.OutputSections)
                     IN  /\ Sections' = st2.Sections
                         /\ created' = st1.created
                         /\ Groups' = st1.Groups
                         /\ Symbols' = st2.Symbols
                         /\ OutputSections' = st1.OutputSections
                         /\ UNCHANGED << pc, exitCode, diag, outOnDisk, kept >>
    /\ UNCHANGED << warned, dbOpen, inputs, libraryVars, Uuid, Magics, OrderedSymbols,
                    SectionHeaders, OS, Header, FileHeader, cursor, symtabOut >>

\* The loop over the ticket members ends; State.Symbols.sort().
SortSymbols ==
    /\ pc = "members"
    /\ OrderedSymbols' = sort(Symbols)
    /\ Symbols' = withIndices(Symbols, sort(Symbols))
    /\ pc' = "header"
    /\ UNCHANGED << exitCode, diag, warned, outOnDisk, kept, dbOpen, inputs, libraryVars,
                    Uuid, Magics, processed, Sections, created, Groups,
                    SectionHeaders, OS, Header, FileHeader, OutputSections,
                    cursor, symtabOut >>

\* initELFHeader(Header); initStandardSections(); writeRaw(OS, Header).
WriteHeader ==
    /\ pc = "header"
    /\ Header' = initELFHeader
    /\ SectionHeaders' = initStandardSections(SectionHeaders)
    /\ OS' = writeAligned(OS, "ehdr", 1, 64)
    /\ FileHeader' = initELFHeader
    /\ pc' = "sections"
    /\ UNCHANGED << exitCode, diag, warned, outOnDisk, kept, dbOpen, inputs, libraryVars,
                    Uuid, Magics, processed, Sections, created, Groups,
                    Symbols, OrderedSymbols, OutputSections, cursor,
                    symtabOut >>

\* An index taken one header too early.
setIndexBeforeGroup(Sec, Headers) == [ Sec EXCEPT !.index = Len(Headers) - 1 ]

\* Section.setIndex(State.SectionHeaders.size())
setIndex(Sec, Headers) == [ Sec EXCEPT !.index = Len(Headers) ]

\* One iteration of the loop over State.Sections: the group's header is
\* built, the section is given its index and written.
WriteOutputSection ==
    /\ pc = "sections"
    /\ cursor < Cardinality(DOMAIN Sections)
    /\ LET Id       == SortedIds(DOMAIN Sections)[cursor + 1]
           Group    == Sections[Id].group
           Headers1 == IF Group # null
                       THEN buildGroupHeaders(SectionHeaders, Symbols,
                                              Groups[Group])
                       ELSE SectionHeaders
           Section  == setIndex(Sections[Id], Headers1)
       IN  /\ Groups' = IF Group # null
                        THEN [ Groups EXCEPT
                                 ![Group] = buildGroupInfo(SectionHeaders, @) ]
                        ELSE Groups
           /\ Sections' = [ Sections EXCEPT ![Id] = Section ]
           /\ SectionHeaders' =
                  sectionHeadersWritten(Headers1, OS, Section, Section.index)
           /\ OS' = sectionBytesWritten(OS, Section)
    /\ cursor' = cursor + 1
    /\ UNCHANGED << pc, exitCode, diag, warned, outOnDisk, kept, dbOpen,
                    inputs, libraryVars, Uuid, Magics, processed, created, Symbols,
                    OrderedSymbols, Header, FileHeader, OutputSections,
                    symtabOut >>

\* State.writeGroupSections(OS), once every output section is written.
WriteGroupSections ==
    /\ pc = "sections"
    /\ cursor = Cardinality(DOMAIN Sections)
    /\ LET st == writeGroupSections(
                     [ OS |-> OS, SectionHeaders |-> SectionHeaders ],
                     SortedAddresses(DOMAIN Groups), Groups, Sections)
       IN  /\ OS' = st.OS
           /\ SectionHeaders' = st.SectionHeaders
    /\ pc' = "strtab"
    /\ UNCHANGED << exitCode, diag, warned, outOnDisk, kept, dbOpen, inputs, libraryVars,
                    Uuid, Magics, processed, Sections, created, Groups,
                    Symbols, OrderedSymbols, Header, FileHeader,
                    OutputSections, cursor, symtabOut >>

\* The string table is written and its header patched.
WriteStringTable ==
    /\ pc = "strtab"
    /\ LET size == stringTableSize(stringsHeld(SectionHeaders, Symbols))
       IN  /\ SectionHeaders' = [ SectionHeaders EXCEPT
                                    ![2].sh_offset = tell(OS),
                                    ![2].sh_size   = size ]
           /\ OS' = writeAligned(OS, "strtab", 1, size)
    /\ pc' = "symtab"
    /\ UNCHANGED << exitCode, diag, warned, outOnDisk, kept, dbOpen, inputs, libraryVars,
                    Uuid, Magics, processed, Sections, created, Groups,
                    Symbols, OrderedSymbols, Header, FileHeader,
                    OutputSections, cursor, symtabOut >>

\* S.sh_info = SymbolTable<ELFT>::firstNonLocal(OrderedSymbols)
symtabInfo(Ordered) == firstNonLocal(Ordered)

\* The table written as it was filled, not as it was sorted.
symbolsUnsorted(Syms, Ordered) == Syms

\* The symbols handed to State.Symbols.write(OS, OrderedSymbols).
symbolsToWrite(Syms, Ordered) == Ordered

\* The symbol table is written and its header patched.
WriteSymbolTable ==
    /\ pc = "symtab"
    /\ LET entries == symbolsWritten(symbolsToWrite(Symbols, OrderedSymbols))
       IN  /\ symtabOut' = entries
           /\ SectionHeaders' = [ SectionHeaders EXCEPT
                                    ![3].sh_info   = symtabInfo(OrderedSymbols),
                                    ![3].sh_offset = aligned(tell(OS), 8),
                                    ![3].sh_size   = 24 * Len(entries) ]
           /\ OS' = writeAligned(OS, "symtab", 8, 24 * Len(entries))
    /\ pc' = "shdrs"
    /\ UNCHANGED << exitCode, diag, warned, outOnDisk, kept, dbOpen, inputs, libraryVars,
                    Uuid, Magics, processed, Sections, created, Groups,
                    Symbols, OrderedSymbols, Header, FileHeader,
                    OutputSections, cursor >>

\* State.writeSectionHeaders(OS); Header.e_shoff, e_shnum and e_shstrndx.
WriteSectionHeaders ==
    /\ pc = "shdrs"
    /\ OS' = writeAligned(OS, "shdrs", 8, 64 * Len(SectionHeaders))
    /\ Header' = [ e_shoff |-> aligned(tell(OS), 8),
                   e_shnum |-> Len(SectionHeaders),
                   e_shstrndx |-> 1 ]
    /\ pc' = "finish"
    /\ UNCHANGED << exitCode, diag, warned, outOnDisk, kept, dbOpen, inputs, libraryVars,
                    Uuid, Magics, processed, Sections, created, Groups,
                    Symbols, OrderedSymbols, SectionHeaders, FileHeader,
                    OutputSections, cursor, symtabOut >>

\* OS.seek(0); writeRaw(OS, Header); Out->keep(); flush; return EXIT_SUCCESS.
Finish ==
    /\ pc = "finish"
    /\ FileHeader' = Header
    /\ kept' = TRUE
    /\ pc' = "returned"
    /\ exitCode' = 0
    /\ outOnDisk' = fileAfterDestructor(outOnDisk, TRUE)
    /\ UNCHANGED << diag, warned, dbOpen, inputs, libraryVars, Uuid, Magics, processed,
                    Sections, created, Groups, Symbols, OrderedSymbols,
                    SectionHeaders, OS, Header, OutputSections, cursor,
                    symtabOut >>

Next ==
    \/ OpenOutput
    \/ ReadTicket
    \/ GetTicketIndex
    \/ GetFragmentIndex
    \/ FindTicket
    \/ InitializeNames
    \/ \E Tm \in TicketMembers : ProcessMember(Tm)
    \/ SortSymbols
    \/ WriteHeader
    \/ WriteOutputSection
    \/ WriteGroupSections
    \/ WriteStringTable
    \/ WriteSymbolTable
    \/ WriteSectionHeaders
    \/ Finish

Spec == Init /\ [][Next]_vars

-----------------------------------------------------------------------------
(* Properties. *)

ended == pc \in { "exited", "returned" }

succeeded == pc = "returned" /\ exitCode = 0

\* Nothing of the object file has been written.
nothingWritten ==
    /\ OS = << >>
    /\ SectionHeaders = << >>
    /\ FileHeader = << >>
    /\ symtabOut = << >>

\* getTicketFileUuid has been called and main has acted on its result.
ticketRead == pc \notin { "open_output", "read_ticket" } /\ outputOpens

\* The ticket file is 24 bytes long and starts with "RepoUuid".
wellFormedTicket ==
    /\ Len(ticketFile) = 24
    /\ \A i \in 1 .. 8 : ticketFile[i] = RepoUuid[i]

\* C1: a ticket file that can be read is accepted exactly when it is 24 bytes
\* long and starts with "RepoUuid"; the uuid then is bytes 8..23 of the file
\* in file order; a file of any other length or signature ends the run with
\* exit status 1 and the "was not a Repo ticket file" diagnostic, the store
\* never opened and no ticket looked up.
C1_TicketFileAccepted ==
    ticketRead =>
        /\ (Uuid # << >>) <=> (wellFormedTicket /\ ticketIo = "ok")
        /\ Uuid # << >> =>
              /\ Len(Uuid) = 16
              /\ \A i \in 1 .. 16 : Uuid[i] = ticketFile[8 + i]
        /\ ~ wellFormedTicket =>
              /\ pc \in { "exited", "returned" }
              /\ exitCode = 1
              /\ ~ dbOpen
              /\ processed = << >>
        /\ (~ wellFormedTicket /\ ticketIo = "ok") =>
              /\ pc = "exited"
              /\ diag = "was not a Repo ticket file"

\* C1 witness: a 24-byte file signed "RepoUuid" was accepted and its payload,
\* which is no key of the ticket index, was returned as the uuid.
C1_Witness ==
    /\ pc = "find_ticket"
    /\ Len(ticketFile) = 24
    /\ Uuid = UuidMissing

\* C2: a lookup miss is fatal.  When the uuid is no key of the ticket index,
\* or a member's digest no key of the fragment index, the run returns exit
\* status 1 there with the "was not found" diagnostic: the member with the
\* missing digest is the last one processed, and nothing of the ELF file is
\* written.
C2_LookupMissFatal ==
    /\ (pc \notin { "open_output", "read_ticket", "ticket_index",
                    "fragment_index", "find_ticket" }
          /\ Uuid # << >> /\ Uuid \notin TicketIndex
          /\ store.hasTicketIndex /\ store.hasFragmentIndex) =>
           /\ pc = "returned"
           /\ exitCode = 1
           /\ diag = "Error: ticket was not found."
           /\ processed = << >>
           /\ nothingWritten
    /\ \A i \in DOMAIN processed :
           processed[i].digest \notin DOMAIN FragmentIndex =>
               /\ i = Len(processed)
               /\ pc = "returned"
               /\ exitCode = 1
               /\ diag = "Error: fragment was not found."
               /\ nothingWritten

\* C2 witness: the second member of a ticket named a digest that is not in
\* the fragment index, after a first member that was processed.
C2_Witness ==
    /\ pc = "returned"
    /\ Len(processed) = 2
    /\ processed[2].digest \notin DOMAIN FragmentIndex
    /\ Sections # EmptyMap

\* The member whose loop iteration a step runs, when it runs one.
memberStep == pc = "members" /\ processed' # processed

\* C3: an iteration for a member of common linkage whose fragment is found
\* ends the process with exit status 1 unless the fragment is one BSS section
\* and nothing else; when it is, the step inserts one symbol for the member
\* (no output section, offset 0, the size of the BSS data) and changes no
\* output section and no group.
C3_CommonSymbol ==
    [][ (memberStep /\ Last(processed').linkage = "common"
            /\ Last(processed').digest \in DOMAIN FragmentIndex) =>
          LET Tm   == Last(processed')
              F    == FragmentIndex[Tm.digest]
              Name == getString(Tm.name)
          IN  IF DOMAIN F = { "BSS" }
              THEN /\ pc' = "members"
                   /\ Sections' = Sections
                   /\ created' = created
                   /\ Groups' = Groups
                   /\ IF \E i \in DOMAIN Symbols : Symbols[i].name = Name
                      THEN Len(Symbols') = Len(Symbols)
                      ELSE Symbols' =
                             Append(Symbols,
                                    [ name |-> Name, defined |-> TRUE,
                                      section |-> NoSection, offset |-> 0,
                                      size |-> F["BSS"].size,
                                      linkage |-> "common", Index |-> 0 ])
              ELSE /\ pc' = "exited"
                   /\ exitCode' = 1
                   /\ diag' = "did not contain a sole BSS section"
                   /\ Sections' = Sections
                   /\ Groups' = Groups
                   /\ Symbols' = Symbols ]_vars

\* C3 witness: a common member with a sole BSS section was processed after
\* another member had created an output section; its symbol is in the table.
C3_Witness ==
    /\ pc = "members"
    /\ Len(processed) = 2
    /\ processed[2].linkage = "common"
    /\ Sections # EmptyMap
    /\ \E i \in DOMAIN Symbols :
           /\ Symbols[i].section = NoSection
           /\ Symbols[i].defined
           /\ Symbols[i].size = 16

\* C4 as stated: a store that lacks any one of the ticket index, the fragment
\* index or the name index makes the run fatal, so a run that ends with exit
\* status 0 had all three.
C4_AnyMissingIndexFatal ==
    succeeded =>
        /\ store.hasTicketIndex
        /\ store.hasFragmentIndex
        /\ store.hasNameIndex

\* main has asked the store for its fragment index.
fragmentIndexAsked ==
    dbOpen /\ pc \notin { "ticket_index", "fragment_index" }

\* The run got as far as the loop over the ticket members.
reachedMembers ==
    \/ pc \in { "members", "header", "sections", "strtab", "symtab", "shdrs",
                "finish" }
    \/ succeeded
    \/ ended /\ diag \in { "Error: fragment was not found.",
                           "did not contain a sole BSS section" }

\* C4 as amended: a store without the ticket index, or without the fragment
\* index, ends the run with exit status 1, the diagnostic naming that index,
\* and no output file; a store without the name index only draws a warning:
\* both special names stay null and the run goes on into the ticket members.
C4_MissingIndex ==
    /\ (dbOpen /\ ~ store.hasTicketIndex) =>
           /\ pc = "returned"
           /\ exitCode = 1
           /\ diag = "Error: ticket index was not found."
           /\ ~ outOnDisk
    /\ (fragmentIndexAsked /\ store.hasTicketIndex
          /\ ~ store.hasFragmentIndex) =>
           /\ pc = "returned"
           /\ exitCode = 1
           /\ diag = "Error: fragment index was not found."
           /\ ~ outOnDisk
    /\ succeeded => store.hasTicketIndex /\ store.hasFragmentIndex
    /\ (Uuid \in TicketIndex /\ store.hasTicketIndex
          /\ store.hasFragmentIndex
          /\ pc \notin { "open_output", "read_ticket", "ticket_index",
                         "fragment_index", "find_ticket", "names" }) =>
           /\ reachedMembers
           /\ warned <=> ~ store.hasNameIndex
           /\ ~ store.hasNameIndex =>
                  Magics = [ CtorName |-> null, DtorName |-> null ]

\* C4 witness: a run on a store with no name index ended with exit status 0,
\* the warning printed and the object file kept.
C4_Witness ==
    /\ succeeded
    /\ ~ store.hasNameIndex
    /\ warned
    /\ outOnDisk
    /\ Len(processed) = 2

\* C5: when a run ends in failure, no output file remains on disk.
C5_OutputDroppedOnFailure ==
    (ended /\ exitCode # 0) => ~ outOnDisk

\* The contributions of all output sections, each with the id of its section.
allContributions ==
    UNION { { << Id, Sections[Id].contributions[i] >> :
                i \in DOMAIN Sections[Id].contributions } :
            Id \in DOMAIN Sections }

\* C6: the key of an output section is (ELF section type, discriminator),
\* the discriminator being the member's name for a linkonce member and null
\* for any other: the contributions of non-linkonce members to one ELF
\* section type share one output section, and a section that holds a
\* linkonce member's contribution holds only contributions of linkonce
\* members of that name.
C6_SectionKeys ==
    /\ \A p \in allContributions :
           p[1][2] = (IF p[2].linkage = "linkonce" THEN p[2].name ELSE null)
    /\ \A p \in allContributions, q \in allContributions :
           /\ (p[2].linkage # "linkonce" /\ q[2].linkage # "linkonce"
                 /\ p[1][1] = q[1][1]) => p[1] = q[1]
           /\ (p[1] = q[1] /\ p[2].linkage = "linkonce") =>
                  q[2].linkage = "linkonce" /\ q[2].name = p[2].name
    /\ \A i \in DOMAIN processed :
           (processed[i].linkage # "common"
              /\ processed[i].digest \in DOMAIN FragmentIndex) =>
               \A k \in DOMAIN FragmentIndex[processed[i].digest] :
                   \E p \in allContributions :
                       p[2].member = i /\ p[2].kind = k

\* C6 witness: two non-linkonce members share an output section while a
\* linkonce member has a section of the same ELF type to itself.
C6_Witness ==
    /\ pc = "members"
    /\ \E p \in allContributions, q \in allContributions :
           /\ p[1] = q[1]
           /\ p[2].member # q[2].member
           /\ p[2].linkage # "linkonce"
           /\ \E r \in allContributions :
                  /\ r[2].linkage = "linkonce"
                  /\ r[1][1] = p[1][1]
                  /\ r[1] # p[1]

\* The section headers of type SHT_GROUP, as positions in SectionHeaders.
groupHeaders ==
    { i \in DOMAIN SectionHeaders : SectionHeaders[i].sh_type = "SHT_GROUP" }

\* The names of the linkonce members that were given output sections.
linkonceNames ==
    { processed[i].name : i \in { j \in DOMAIN processed :
          /\ processed[j].linkage = "linkonce"
          /\ processed[j].digest \in DOMAIN FragmentIndex } }

\* Two linkonce members of one name, with different fragments, are in the
\* ticket.
twoFragmentsOneName ==
    \E i \in DOMAIN processed, j \in DOMAIN processed :
        /\ i < j
        /\ processed[i].linkage = "linkonce"
        /\ processed[j].linkage = "linkonce"
        /\ processed[i].name = processed[j].name
        /\ processed[i].digest # processed[j].digest

\* C7: in the emitted file every name of a linkonce member has exactly one
\* SHT_GROUP header, however many members and fragments carry the name; the
\* header's sh_info is the index in .symtab of the symbol of that name, and
\* the group's Members list holds every output section made for the name
\* exactly once.
C7_OneGroupPerName ==
    succeeded =>
        /\ DOMAIN Groups = linkonceNames
        /\ Cardinality(groupHeaders) = Cardinality(linkonceNames)
        /\ \A a \in linkonceNames :
               /\ Cardinality({ i \in groupHeaders :
                                  SectionHeaders[i].owner = a }) = 1
               /\ \A i \in groupHeaders :
                      SectionHeaders[i].owner = a =>
                          /\ Groups[a].SectionIndex = i - 1
                          /\ SectionHeaders[i].sh_info \in 1 .. Len(symtabOut) - 1
                          /\ symtabOut[SectionHeaders[i].sh_info + 1].name
                                 = getString(a)
               /\ Range(Groups[a].Members)
                      = { Id \in DOMAIN Sections : Id[2] = a }
               /\ Len(Groups[a].Members)
                      = Cardinality(Range(Groups[a].Members))

\* C7 witness: a ticket with two linkonce members of one name and different
\* fragments was written out; the name's group has two member sections.
C7_Witness ==
    /\ succeeded
    /\ twoFragmentsOneName
    /\ \E a \in DOMAIN Groups : Len(Groups[a].Members) = 2

\* The ticket of scenario S5: two linkonce members, both named foo, each with
\* a fragment of one text section of 4 bytes.
ticketS5 ==
    /\ Len(processed) = 2
    /\ \A i \in { 1, 2 } :
           /\ processed[i].linkage = "linkonce"
           /\ getString(processed[i].name) = "foo"
           /\ processed[i].digest \in DOMAIN FragmentIndex
           /\ DOMAIN FragmentIndex[processed[i].digest] = { "Text" }
           /\ FragmentIndex[processed[i].digest]["Text"].size = 4

\* The entries of the written .symtab named foo, as positions.
fooEntries == { i \in DOMAIN symtabOut : symtabOut[i].name = "foo" }

\* C8 as stated: for the ticket of S5 the output has two text sections and
\* one SHT_GROUP section per member, and .symtab holds foo once, pointing into
\* the first member's section.
C8_TwoSectionsTwoGroups ==
    (succeeded /\ ticketS5) =>
        /\ Cardinality({ Id \in DOMAIN Sections : Id[1] = "Text" }) = 2
        /\ Cardinality(groupHeaders) = 2
        /\ Cardinality(fooEntries) = 1

\* C8 as amended: for the ticket of S5 the output has one text section, which
\* holds the 4 bytes of both members, and one SHT_GROUP section whose only
\* member is that section; .symtab holds foo once, defined in that section at
\* the offset of the first member's contribution.
C8_OneSectionOneGroup ==
    (succeeded /\ ticketS5) =>
        LET Id == << "Text", AddressOf("foo") >>
        IN  /\ DOMAIN Sections = { Id }
            /\ Len(Sections[Id].contributions) = 2
            /\ \A i \in { 1, 2 } :
                   /\ Sections[Id].contributions[i].member = i
                   /\ Sections[Id].contributions[i].size = 4
            /\ Cardinality(groupHeaders) = 1
            /\ Groups[AddressOf("foo")].Members = << Id >>
            /\ Cardinality(fooEntries) = 1
            /\ \A i \in fooEntries :
                   /\ symtabOut[i].section = Id
                   /\ symtabOut[i].offset = Sections[Id].contributions[1].offset

\* C8 witness: the ticket of S5, with two different fragments, was written.
C8_Witness ==
    /\ succeeded
    /\ ticketS5
    /\ processed[1].digest # processed[2].digest
    /\ Cardinality(groupHeaders) = 1

\* The .symtab header's sh_info.
symtabShInfo == SectionHeaders[3].sh_info

\* C9: once .symtab is written, every entry of local binding precedes every
\* entry of any other binding, and the .symtab header's sh_info is the index
\* of the first entry whose binding is not STB_LOCAL (the number of entries
\* when all are local).
C9_LocalsFirst ==
    symtabOut # << >> =>
        /\ symtabShInfo \in 1 .. Len(symtabOut)
        /\ \A i \in DOMAIN symtabOut :
               (i - 1 < symtabShInfo) <=> (binding(symtabOut[i]) = "STB_LOCAL")
        /\ \A i \in DOMAIN symtabOut, j \in DOMAIN symtabOut :
               (binding(symtabOut[i]) = "STB_LOCAL"
                  /\ binding(symtabOut[j]) # "STB_LOCAL") => i < j
        /\ { symtabOut[i].name : i \in DOMAIN symtabOut } \ { "" }
               = { Symbols[i].name : i \in DOMAIN Symbols }
        /\ Len(symtabOut) = Len(Symbols) + 1

\* C9 witness: a file was written whose symbol table holds a local symbol
\* that was inserted after a global one.
C9_Witness ==
    /\ succeeded
    /\ symtabShInfo >= 2
    /\ Len(symtabOut) > symtabShInfo
    /\ \E i \in DOMAIN Symbols, j \in DOMAIN Symbols :
           i < j /\ ~ isLocal(Symbols[i]) /\ isLocal(Symbols[j])

\* The special name is a string of the store's name index.
interned(str) == store.hasNameIndex /\ str \in store.names

\* C10: every section of a member named llvm.global_ctors, the name being in
\* the name index, lands in an output section of type SHT_INIT_ARRAY, and of
\* a member named llvm.global_dtors in SHT_FINI_ARRAY, whatever the section
\* kind; any other member, and a member whose special name is not in the name
\* index, lands in the section of its fragment section kind.
C10_CtorsDtors ==
    \A p \in allContributions :
        LET Name == getString(p[2].name)
            Type == p[1][1]
        IN  /\ (Name = "llvm.global_ctors" /\ interned(Name)) =>
                   /\ Type = "InitArray"
                   /\ SectionAttributes[Type].type = "SHT_INIT_ARRAY"
            /\ (Name = "llvm.global_dtors" /\ interned(Name)) =>
                   /\ Type = "FiniArray"
                   /\ SectionAttributes[Type].type = "SHT_FINI_ARRAY"
            /\ (Name \notin { "llvm.global_ctors", "llvm.global_dtors" }
                  \/ ~ interned(Name)) => Type = p[2].kind

\* C10 witness: the text and the data section of a member named
\* llvm.global_ctors are in .init_array, and a member named llvm.global_dtors
\* on a store whose name index lacks that name is in .data.
C10_Witness ==
    /\ \E p \in allContributions, q \in allContributions :
           /\ p[1][1] = "InitArray" /\ q[1][1] = "InitArray"
           /\ p[2].kind = "Text" /\ q[2].kind = "Data"
    /\ \E p \in allContributions :
           /\ getString(p[2].name) = "llvm.global_dtors"
           /\ p[1][1] = "Data"

\* The symbol table has been sorted.
symbolsSorted ==
    pc \in { "header", "sections", "strtab", "symtab", "shdrs", "finish" }
        \/ succeeded

\* C11: a SHT_GROUP header exists only once the symbol table is sorted, and
\* its sh_info is the final, non-zero index of the group's signature symbol;
\* every member section that has been given its index has a larger index than
\* its group's header, and in the emitted file every member has its index.
C11_GroupHeaderFirst ==
    /\ groupHeaders # {} => symbolsSorted
    /\ \A i \in groupHeaders :
           LET info == SectionHeaders[i].sh_info
           IN  /\ info \in 1 .. Len(OrderedSymbols)
               /\ OrderedSymbols[info].Index = info
               /\ OrderedSymbols[info].name = getString(SectionHeaders[i].owner)
    /\ \A a \in DOMAIN Groups :
           \A k \in DOMAIN Groups[a].Members :
               LET S == Sections[Groups[a].Members[k]]
               IN  /\ succeeded => S.index # 0
                   /\ S.index # 0 =>
                          /\ Groups[a].SectionIndex >= 3
                          /\ Groups[a].SectionIndex < S.index
                          /\ SectionHeaders[Groups[a].SectionIndex + 1].sh_type
                                 = "SHT_GROUP"
                          /\ SectionHeaders[Groups[a].SectionIndex + 1].owner = a
                          /\ SectionHeaders[S.index + 1].owner = S.Id
                          /\ SectionHeaders[S.index + 1].sh_type # "SHT_GROUP"

\* C11 witness: a file was written in which a group of two member sections
\* follows an ungrouped section, and the group's signature symbol is not the
\* first symbol of the table.
C11_Witness ==
    /\ succeeded
    /\ \E a \in DOMAIN Groups :
           /\ Len(Groups[a].Members) = 2
           /\ Groups[a].SectionIndex > 3
           /\ SectionHeaders[Groups[a].SectionIndex + 1].sh_info >= 2
           /\ \A k \in { 1, 2 } :
                  Sections[Groups[a].Members[k]].index > Groups[a].SectionIndex

\* The section index given to the output section Id.
indexOf(Id) == Sections[Id].index

\* C19 as stated: in the emitted file an output section created before
\* another has the smaller section index.
C19_CreationOrder ==
    succeeded =>
        \A i \in DOMAIN created, j \in DOMAIN created :
            i < j => indexOf(created[i]) < indexOf(created[j])

\* C19 as amended: the output sections are written, and indexed from 3
\* upward, in ascending order of their keys (ELF section type, then
\* discriminator), which is the order of iteration of State.Sections; the
\* payloads lie in the file in that order as well.
C19_KeyOrder ==
    succeeded =>
        /\ Range(created) = DOMAIN Sections
        /\ \A a \in DOMAIN Sections :
               /\ indexOf(a) >= 3
               /\ SectionHeaders[indexOf(a) + 1].owner = a
        /\ \A a \in DOMAIN Sections, b \in DOMAIN Sections :
               SectionIdLess(a, b) =>
                   /\ indexOf(a) < indexOf(b)
                   /\ SectionHeaders[indexOf(a) + 1].sh_offset
                          <= SectionHeaders[indexOf(b) + 1].sh_offset

\* C19 witness: a file was written in which a section created later has the
\* smaller index.
C19_Witness ==
    /\ succeeded
    /\ \E i \in DOMAIN created, j \in DOMAIN created :
           /\ i < j
           /\ indexOf(created[i]) > indexOf(created[j])
           /\ indexOf(created[j]) = 3

\* The writes of group section bodies for the group a, as positions in OS.
groupWrites(a) ==
    { i \in DOMAIN OS : "words" \in DOMAIN OS[i] /\ OS[i].what[2] = a }

\* The position, among the words of group a, of the index of its k-th member:
\* behind GRP_COMDAT, the earlier members and the earlier .rela siblings.
wordPos(a, k) ==
    1 + k + Cardinality({ j \in 1 .. (k - 1) :
                            numRelocations(Sections[Groups[a].Members[j]]) > 0 })

\* State.writeGroupSections(OS) has run.
groupsWritten ==
    pc \in { "strtab", "symtab", "shdrs", "finish" } \/ succeeded

\* C20: once writeGroupSections has run, every group has one body in the
\* file: the word GRP_COMDAT, then for each member in Members order its
\* section index, followed by that index plus one exactly when the member has
\* a relocation; the group's header has the offset of the GRP_COMDAT word as
\* sh_offset and 4 times the number of words as sh_size, and every index
\* written is that of a header of the table (the member's own header, and
\* its .rela sibling's).
C20_GroupBodies ==
    groupsWritten =>
        \A a \in DOMAIN Groups :
            /\ Cardinality(groupWrites(a)) = 1
            /\ \A i \in groupWrites(a) :
                   LET words   == OS[i].words
                       Members == Groups[a].Members
                       withRela ==
                           { k \in DOMAIN Members :
                               numRelocations(Sections[Members[k]]) > 0 }
                       SH      == SectionHeaders[Groups[a].SectionIndex + 1]
                   IN  /\ words[1] = "GRP_COMDAT"
                       /\ Len(words) = 1 + Len(Members) + Cardinality(withRela)
                       /\ \A k \in DOMAIN Members :
                              LET idx == indexOf(Members[k])
                              IN  /\ words[wordPos(a, k)] = idx
                                  /\ idx + 1 \in DOMAIN SectionHeaders
                                  /\ SectionHeaders[idx + 1].owner = Members[k]
                                  /\ k \in withRela =>
                                         /\ words[wordPos(a, k) + 1] = idx + 1
                                         /\ idx + 2 \in DOMAIN SectionHeaders
                                         /\ SectionHeaders[idx + 2].sh_type
                                                = "SHT_RELA"
                                         /\ SectionHeaders[idx + 2].sh_info = idx
                       /\ SH.sh_type = "SHT_GROUP"
                       /\ SH.sh_offset = OS[i].at
                       /\ SH.sh_size = 4 * Len(words)
                       /\ OS[i].size = SH.sh_size
                       /\ OS[i].at % 4 = 0
                       /\ i > 1 => OS[i].at >= OS[i - 1].at + OS[i - 1].size

\* C20 witness: two groups were written, one of them with a member that has
\* relocations followed by a member that has none.
C20_Witness ==
    /\ succeeded
    /\ Cardinality(DOMAIN Groups) = 2
    /\ \E a \in DOMAIN Groups :
           /\ Len(Groups[a].Members) = 2
           /\ numRelocations(Sections[Groups[a].Members[1]]) > 0
           /\ numRelocations(Sections[Groups[a].Members[2]]) = 0
           /\ \E i \in groupWrites(a) : Len(OS[i].words) = 4

-----------------------------------------------------------------------------
(* The hash calculator (HashCalculator.cpp).  What a computation feeds to  *)
(* Hash.update is kept as a sequence of tokens; a token is a string that   *)
(* stands for one fixed-width field (a tag, a number, a flag) or for the   *)
(* bytes of one string.                                                    *)

\* Hash.update(V) for a scalar V (a tag's byte, a flag, an enumerator).
update(V) == << "=" \o ToString(V) >>

\* Hash.update(HashKind::TAG_...)
tag(T) == << T >>

\* HashCalculator::numberHash(V): the number as a fixed-width integer.
numberHash(V) == << "#" \o ToString(V) >>

\* Hash.update(V) for a StringRef V: the bytes of the string, no length.
updateString(V) == << "s:" \o V >>

\* HashCalculator::memHash(V)
memHash(V) ==
    tag("TAG_StringRef") \o numberHash(Len(V)) \o updateString(V)

\* The numberHash calls of the loop over the words of an APInt.
RECURSIVE wordsHash(_)
wordsHash(Words) ==
    IF Words = << >> THEN << >>
    ELSE numberHash(Head(Words)) \o wordsHash(Tail(Words))

\* APIntHash with the number of words fed ahead of the words.
APIntHashWithLength(V) ==
    tag("TAG_APInt") \o numberHash(Len(V)) \o wordsHash(V)

\* HashCalculator::APIntHash(V); V is the sequence of the 64-bit words.
APIntHash(V) == tag("TAG_APInt") \o wordsHash(V)

\* Types.  A type is a tuple that starts with its TypeID.
VoidTy == << "VoidTyID" >>

LabelTy == << "LabelTyID" >>

IntegerTy(Bits) == << "IntegerTyID", Bits >>

PointerTy(AddressSpace) == << "PointerTyID", AddressSpace >>

StructTy(Elements, Packed) == << "StructTyID", Elements, Packed >>

FunctionTy(Params, VarArg, Ret) == << "FunctionTyID", Params, VarArg, Ret >>

I32 == IntegerTy(32)

Ptr == PointerTy(0)

PairTy == StructTy(<< I32, I32 >>, FALSE)

\* HashCalculator::typeHash(Ty); typesHash is the loop over a list of types.
RECURSIVE typeHash(_)
RECURSIVE typesHash(_)
typesHash(Tys) ==
    IF Tys = << >> THEN << >>
    ELSE typeHash(Head(Tys)) \o typesHash(Tail(Tys))

typeHash(Ty) ==
    tag("TAG_Type") \o update(Ty[1]) \o
    CASE Ty[1] = "IntegerTyID"  -> numberHash(Ty[2])
      [] Ty[1] = "FunctionTyID" ->
             typesHash(Ty[2]) \o update(Ty[3]) \o typeHash(Ty[4])
      [] Ty[1] = "PointerTyID"  -> numberHash(Ty[2])
      [] Ty[1] = "StructTyID"   ->
             typesHash(Ty[2]) \o (IF Ty[3] THEN update(Ty[3]) ELSE << >>)
      [] OTHER -> << >>

\* Constants.  A constant is a tuple that starts with its ValueID; a global
\* value used as a constant names the global by its identity.
ConstantInt(Ty, Words) == << "ConstantIntVal", Ty, Words >>

UndefValue(Ty) == << "UndefValueVal", Ty >>

ConstantStruct(Ty, Ops) == << "ConstantStructVal", Ty, Ops >>

ConstantExpr(Ty, Ops) == << "ConstantExprVal", Ty, Ops >>

GlobalRef(Id) == << "GlobalValue", Id >>

\* A variable declaration has no initializer.
NoInitializer == << >>

\* Gv->hasComdat() is false.
NoComdat == << >>

\* A comdat: its name and its selection kind.
Comdat(Name, SelectionKind) == << Name, SelectionKind >>

\* The module: its data layout, its target triple and its source file name.
Module ==
    [ DataLayoutStr |-> "e-m:e", TargetTriple |-> "x86_64-repo",
      SourceFileName |-> "test.c" ]

\* A global variable of the module, external and unadorned.
Variable(Id, Name, ValueType, Initializer) ==
    [ id |-> Id, isa |-> "GlobalVariable", name |-> Name,
      linkage |-> "external", visibility |-> "default",
      dllStorageClass |-> "default", source |-> Module.SourceFileName,
      valueType |-> ValueType, isConstant |-> FALSE,
      threadLocalMode |-> "NotThreadLocal", alignment |-> 4,
      unnamedAddr |-> "None", comdat |-> NoComdat,
      initializer |-> Initializer,
      externallyInitialized |-> FALSE ]

\* A function of the module as other globals refer to it.
FunctionDecl(Id, Name) ==
    [ id |-> Id, isa |-> "Function", name |-> Name, linkage |-> "external",
      source |-> Module.SourceFileName ]

\* An alias of the module, external and unadorned.
Alias(Id, Name, Aliasee) ==
    [ id |-> Id, isa |-> "GlobalAlias", name |-> Name, linkage |-> "external",
      visibility |-> "default", dllStorageClass |-> "default",
      source |-> Module.SourceFileName, valueType |-> I32,
      threadLocalMode |-> "NotThreadLocal", unnamedAddr |-> "None",
      aliasee |-> Aliasee ]

\* The globals of the module, by identity: two functions, a variable with a
\* plain initializer, two declarations, a variable whose initializer refers
\* to itself, two variables that refer to each other (q to p twice), a
\* variable that points to a function, and an alias of x, of y and of w.
Globals ==
    [ id \in { "f", "g", "x", "y", "w", "self", "p", "q", "pf",
               "ax", "ay", "aw" } |->
        CASE id = "f"    -> FunctionDecl("f", "f")
          [] id = "g"    -> FunctionDecl("g", "g")
          [] id = "x"    -> Variable("x", "x", I32, ConstantInt(I32, << 1 >>))
          [] id = "y"    -> Variable("y", "y", I32, NoInitializer)
          [] id = "w"    -> Variable("w", "w", I32, NoInitializer)
          [] id = "ax"   -> Alias("ax", "ax", GlobalRef("x"))
          [] id = "ay"   -> Alias("ay", "ay", GlobalRef("y"))
          [] id = "aw"   ->
                 Alias("aw", "aw", ConstantExpr(Ptr, << GlobalRef("w") >>))
          [] id = "self" ->
                 Variable("self", "self", Ptr,
                          ConstantExpr(Ptr, << GlobalRef("self") >>))
          [] id = "p"    -> Variable("p", "p", Ptr, GlobalRef("q"))
          [] id = "q"    ->
                 Variable("q", "q", StructTy(<< Ptr, Ptr >>, FALSE),
                          ConstantStruct(StructTy(<< Ptr, Ptr >>, FALSE),
                                         << GlobalRef("p"), GlobalRef("p") >>))
          [] id = "pf"   -> Variable("pf", "pf", Ptr, GlobalRef("f")) ]

\* The global of identity Id while Subject is being hashed: the subject
\* itself, or a global of the module.
GlobalAt(Id, Subject) == IF Id = Subject.id THEN Subject ELSE Globals[Id]

\* GlobalValue::isInterposable()
isInterposable(G) ==
    G.linkage \in { "weak_any", "linkonce_any", "common", "extern_weak" }

\* GlobalValue::hasLocalLinkage()
hasLocalLinkage(G) == G.linkage \in { "internal", "private" }

\* GlobalVariable::hasDefinitiveInitializer()
hasDefinitiveInitializer(G) ==
    /\ G.isa = "GlobalVariable"
    /\ G.initializer # NoInitializer
    /\ ~ isInterposable(G)
    /\ ~ G.externallyInitialized

\* GlobalValue::getGUID(): the MD5 of the global identifier, which is the
\* name, behind the source file name for a global of local linkage.
getGUID(G) ==
    IF hasLocalLinkage(G) THEN "guid:" \o G.source \o ":" \o G.name
    ELSE "guid:" \o G.name

\* The type of a constant.
constantType(C) == IF C[1] = "GlobalValue" THEN Ptr ELSE C[2]

\* Values.  A value is a tuple of its class and, for an argument, an
\* instruction or a basic block, its identity within the function; a constant
\* operand carries the constant.
Argument(Id) == << "Argument", Id >>

InstructionRef(Id) == << "Instruction", Id >>

BasicBlock(Id) == << "BasicBlock", Id >>

Constant(C) == << "Constant", C >>

\* An instruction: its identity and name, opcode, type, optional flags
\* (getRawSubclassOptionalData) and operands; storage is where the
\* instruction's own index list is allocated, relative to the base of a
\* layout.  The other fields hold what only some instructions have.
Instruction(Id, Opcode, Ty, Operands) ==
    [ id |-> Id, name |-> Id, opcode |-> Opcode, type |-> Ty, flags |-> 0,
      operands |-> Operands, storage |-> 0, indices |-> << >>,
      predicate |-> 0, incoming |-> << >>, successors |-> << >> ]

Int32(k) == Constant(ConstantInt(I32, << k >>))

\* ret V
Ret(Id, V) == Instruction(Id, "Ret", VoidTy, << V >>)

\* br label Dest
Br(Id, Dest) ==
    [ Instruction(Id, "Br", VoidTy, << BasicBlock(Dest) >>)
        EXCEPT !.successors = << Dest >> ]

\* br i1 Cond, label IfTrue, label IfFalse: the operands are the condition,
\* the false destination and the true destination; successor 0 is IfTrue.
CondBr(Id, Cond, IfTrue, IfFalse) ==
    [ Instruction(Id, "Br", VoidTy,
                  << Cond, BasicBlock(IfFalse), BasicBlock(IfTrue) >>)
        EXCEPT !.successors = << IfTrue, IfFalse >> ]

\* icmp eq A, B (predicate ICMP_EQ = 32)
ICmpEq(Id, A, B) ==
    [ Instruction(Id, "ICmp", IntegerTy(1), << A, B >>)
        EXCEPT !.predicate = 32 ]

\* phi i32 [ V1, B1 ], [ V2, B2 ]
Phi(Id, V1, B1, V2, B2) ==
    [ Instruction(Id, "PHI", I32, << V1, V2 >>)
        EXCEPT !.incoming = << B1, B2 >> ]

\* insertvalue Agg, V, Indices
InsertValue(Id, Agg, V, Indices, Storage) ==
    [ Instruction(Id, "InsertValue", PairTy, << Agg, V >>)
        EXCEPT !.indices = Indices, !.storage = Storage ]

\* extractvalue Agg, Indices
ExtractValue(Id, Agg, Indices, Storage) ==
    [ Instruction(Id, "ExtractValue", I32, << Agg >>)
        EXCEPT !.indices = Indices, !.storage = Storage ]

Block(Id, Insts) == [ id |-> Id, name |-> Id, insts |-> Insts ]

\* A function i32 Name(i32): its one argument is a0.
Function(Id, Name, Blocks) ==
    [ id |-> Id, isa |-> "Function", name |-> Name, linkage |-> "external",
      source |-> Module.SourceFileName, callingConv |-> 0,
      isVarArg |-> FALSE, gc |-> "", section |-> "",
      params |-> << I32 >>, returnType |-> I32,
      args |-> << [ id |-> "a0", name |-> "a0", type |-> I32 ] >>,
      blocks |-> Blocks ]

\* f(i32 %0) { %1 = add i32 %0, k; ret i32 %1 }
AddConstant(k) ==
    Function("f", "f",
        << Block("entry",
                 << Instruction("i1", "Add", I32, << Argument("a0"), Int32(k) >>),
                    Ret("t1", InstructionRef("i1")) >>) >>)

\* A function whose entry branches to two blocks that join at a phi.
Diamond ==
    Function("f", "f",
        << Block("entry",
                 << ICmpEq("c", Argument("a0"), Int32(0)),
                    CondBr("t1", InstructionRef("c"), "then", "else") >>),
           Block("then", << Br("t2", "join") >>),
           Block("else", << Br("t3", "join") >>),
           Block("join",
                 << Phi("r", Int32(1), "then", Argument("a0"), "else"),
                    Ret("t4", InstructionRef("r")) >>) >>)

\* A function with a loop whose phi uses a value defined after it.
Loop ==
    Function("f", "f",
        << Block("entry", << Br("t1", "loop") >>),
           Block("loop",
                 << Phi("i", Int32(0), "entry", InstructionRef("n"), "loop"),
                    Instruction("n", "Add", I32,
                                << InstructionRef("i"), Int32(1) >>),
                    ICmpEq("c", InstructionRef("n"), Argument("a0")),
                    CondBr("t2", InstructionRef("c"), "exit", "loop") >>),
           Block("exit", << Ret("t3", InstructionRef("n")) >>) >>)

\* A function that builds a pair with insertvalue and reads it back.
Aggregate(Index) ==
    Function("f", "f",
        << Block("entry",
                 << InsertValue("s", Constant(UndefValue(PairTy)),
                                Argument("a0"), << Index >>, 64),
                    ExtractValue("e", InstructionRef("s"), << 1 >>, 128),
                    Ret("t1", InstructionRef("e")) >>) >>)

\* A function that returns the address of the global of identity Id:
\* f(i32 %0) { %1 = ptrtoint @Id to i32; ret i32 %1 }
AddressOfGlobal(Id) ==
    Function("f", "f",
        << Block("entry",
                 << Instruction("i1", "PtrToInt", I32,
                                << Constant(GlobalRef(Id)) >>),
                    Ret("t1", InstructionRef("i1")) >>) >>)

\* A function of the parameter types Params that returns a value of type
\* RetTy: f(Params) { ret void }, or f(Params) { ret i32 0 }.
Returning(Params, RetTy) ==
    [ Function("f", "f",
          << Block("entry",
                   << IF RetTy = VoidTy
                      THEN Instruction("t1", "Ret", VoidTy, << >>)
                      ELSE Ret("t1", Int32(0)) >>) >>)
        EXCEPT !.params = Params,
               !.returnType = RetTy,
               !.args = [ k \in DOMAIN Params |->
                            [ id |-> "a" \o ToString(k - 1),
                              name |-> "a" \o ToString(k - 1),
                              type |-> Params[k] ] ] ]

\* A memory layout: the address at which the storage of a function's
\* instructions starts in one run.
Layout(Base) == [ base |-> Base ]

\* The global the running computation hashes, and its layout.
Subject == subjects[turn].global

SubjectLayout == subjects[turn].layout

\* Lookups in a function.
argOf(F, Id) == CHOOSE a \in Range(F.args) : a.id = Id

blockOf(F, Id) == CHOOSE b \in Range(F.blocks) : b.id = Id

instOf(F, Id) ==
    CHOOSE i \in UNION { Range(b.insts) : b \in Range(F.blocks) } : i.id = Id

\* V->getType() for a value V of function F.
typeOf(F, V) ==
    CASE V[1] = "Argument"    -> argOf(F, V[2]).type
      [] V[1] = "Instruction" -> instOf(F, V[2]).type
      [] V[1] = "BasicBlock"  -> LabelTy
      [] V[1] = "Constant"    -> constantType(V[2])

\* The calls constantHash makes for a list of operands.
constantCalls(Ops) == [ k \in DOMAIN Ops |-> << "constant", Ops[k] >> ]

\* No entry for the trail.
NoEvent == << >>

\* constantHash without the lookup in global_numbers: every visit of a global
\* is a first visit.
constantHashUnnumbered(V, S, GN) ==
    LET pre == tag("TAG_Constant") \o typeHash(constantType(V))
        out(tokens, calls, table, event) ==
            [ tokens |-> tokens, calls |-> calls, global_numbers |-> table,
              event |-> event ]
    IN  IF V[1] = "GlobalValue"
        THEN IF hasDefinitiveInitializer(GlobalAt(V[2], S))
             THEN out(pre,
                      << << "constant", GlobalAt(V[2], S).initializer >> >>,
                      Put(GN, V[2], Cardinality(DOMAIN GN)),
                      << "first", V[2] >>)
             ELSE out(pre, << >>, GN, NoEvent)
        ELSE LET vid == pre \o numberHash(V[1])
             IN  CASE V[1] = "UndefValueVal" -> out(vid, << >>, GN, NoEvent)
                   [] V[1] = "ConstantIntVal" ->
                          out(vid \o APIntHash(V[3]), << >>, GN, NoEvent)
                   [] V[1] \in { "ConstantStructVal", "ConstantExprVal" } ->
                          out(vid, constantCalls(V[3]), GN, NoEvent)

\* HashCalculator::constantHash(V) while S is hashed and global_numbers is
\* GN: the tokens it feeds itself, the calls it then makes, the table after
\* it, and whether it met a global for the first or a later time.
constantHash(V, S, GN) ==
    LET pre == tag("TAG_Constant") \o typeHash(constantType(V))
        out(tokens, calls, table, event) ==
            [ tokens |-> tokens, calls |-> calls, global_numbers |-> table,
              event |-> event ]
    IN  IF V[1] = "GlobalValue"
        THEN IF hasDefinitiveInitializer(GlobalAt(V[2], S))
             THEN IF V[2] \in DOMAIN GN
                  THEN out(pre, << << "global", V[2] >> >>, GN,
                           << "later", V[2] >>)
                  ELSE out(pre,
                           << << "constant",
                                 GlobalAt(V[2], S).initializer >> >>,
                           Put(GN, V[2], Cardinality(DOMAIN GN)),
                           << "first", V[2] >>)
             ELSE out(pre, << >>, GN, NoEvent)
        ELSE LET vid == pre \o numberHash(V[1])
             IN  CASE V[1] = "UndefValueVal" -> out(vid, << >>, GN, NoEvent)
                   [] V[1] = "ConstantIntVal" ->
                          out(vid \o APIntHash(V[3]), << >>, GN, NoEvent)
                   [] V[1] \in { "ConstantStructVal", "ConstantExprVal" } ->
                          out(vid, constantCalls(V[3]), GN, NoEvent)

\* HashCalculator::globalValueHash(V) for the global of identity Id.
globalValueHash(Id, S, GN) ==
    LET G    == GlobalAt(Id, S)
        guid == numberHash(getGUID(G))
    IN  IF hasDefinitiveInitializer(G)
        THEN IF Id \notin DOMAIN GN
             THEN [ tokens |-> guid,
                    calls |-> << << "constant", G.initializer >> >>,
                    global_numbers |-> Put(GN, Id, Cardinality(DOMAIN GN)) ]
             ELSE [ tokens |-> guid \o numberHash(GN[Id]), calls |-> << >>,
                    global_numbers |-> GN ]
        ELSE [ tokens |-> guid, calls |-> << >>, global_numbers |-> GN ]

\* dyn_cast<GlobalVariable>(V) succeeds.
isGlobalVariable(V, S) ==
    /\ V[1] = "Constant"
    /\ V[2][1] = "GlobalValue"
    /\ GlobalAt(V[2][2], S).isa = "GlobalVariable"

\* Constant::stripPointerCasts() of the constants of the model: a constant
\* expression of one operand is a cast.
RECURSIVE stripPointerCasts(_)
stripPointerCasts(C) ==
    IF C[1] = "ConstantExprVal" /\ Len(C[3]) = 1
    THEN stripPointerCasts(C[3][1]) ELSE C

\* dyn_cast<GlobalAlias>(V) succeeds.
isGlobalAlias(V, S) ==
    /\ V[1] = "Constant"
    /\ V[2][1] = "GlobalValue"
    /\ GlobalAt(V[2][2], S).isa = "GlobalAlias"

\* The names valueHash finds for V: that of the global variable V is, or of
\* the global variable V is an alias of.
variableNames(V, S) ==
    IF isGlobalVariable(V, S) THEN { GlobalAt(V[2][2], S).name }
    ELSE IF isGlobalAlias(V, S)
    THEN LET Aliasee == Constant(stripPointerCasts(GlobalAt(V[2][2], S).aliasee))
         IN  IF isGlobalVariable(Aliasee, S)
             THEN { GlobalAt(Aliasee[2][2], S).name } ELSE {}
    ELSE {}

\* valueHash with the numbers drawn from the size of sn_map after the
\* insertion: the first value gets the number 1.
valueHashFromOne(V, S, SN) ==
    IF V[1] = "Constant"
    THEN [ tokens |-> tag("TAG_Value"),
           calls |-> << << "constant", V[2] >> >>, sn_map |-> SN ]
    ELSE LET SN1 == IF V \in DOMAIN SN THEN SN
                    ELSE Put(SN, V, Cardinality(DOMAIN SN) + 1)
         IN  [ tokens |-> tag("TAG_Value") \o numberHash(SN1[V]),
               calls |-> << >>, sn_map |-> SN1 ]

\* HashCalculator::valueHash(V) while sn_map is SN.
valueHash(V, S, SN) ==
    IF V[1] = "Constant"
    THEN [ tokens |-> tag("TAG_Value"),
           calls |-> << << "constant", V[2] >> >>, sn_map |-> SN ]
    ELSE IF variableNames(V, S) \ { "" } # {}
    THEN [ tokens |-> tag("TAG_Value")
                        \o memHash(CHOOSE n \in variableNames(V, S) : TRUE),
           calls |-> << >>, sn_map |-> SN ]
    ELSE LET SN1 == IF V \in DOMAIN SN THEN SN
                    ELSE Put(SN, V, Cardinality(DOMAIN SN))
         IN  [ tokens |-> tag("TAG_Value") \o numberHash(SN1[V]),
               calls |-> << >>, sn_map |-> SN1 ]

\* The two 32-bit halves of a 64-bit field, low half first (the fields of
\* the model are below 2^31: the high half is 0).
halves(x) == << x, 0 >>

\* Hash.update(ArrayRef<uint8_t>((uint8_t *)&Indices, sizeof(unsigned) *
\* Indices.size())): the bytes are read from the ArrayRef object Indices
\* itself, which holds the address of the index list and its length, in
\* units of sizeof(unsigned).  (Lists of more than 4 indices read past the
\* object and are not modelled.)
indicesBytes(L, I) ==
    LET object == halves(L.base + I.storage) \o halves(Len(I.indices))
    IN  [ k \in 1 .. Len(I.indices) |-> update(object[k])[1] ]

\* The index list fed index by index.
indicesValues(L, I) ==
    [ k \in 1 .. Len(I.indices) |-> update(I.indices[k])[1] ]

\* FunctionHashCalculator::instructionHash(V), up to its loop over the
\* operands: the tokens, and the calls the loop makes before the rest of
\* the function runs.
RECURSIVE operandCalls(_, _)
operandCalls(F, Ops) ==
    IF Ops = << >> THEN << >>
    ELSE << << "type", typeOf(F, Head(Ops)) >>, << "value", Head(Ops) >> >>
             \o operandCalls(F, Tail(Ops))

instructionHash(F, I) ==
    [ tokens |-> tag("TAG_Instruction") \o numberHash(I.opcode)
                     \o typeHash(I.type) \o numberHash(I.flags),
      calls  |-> operandCalls(F, I.operands) \o << << "tail", I.id >> >> ]

\* FunctionHashCalculator::instructionHash(V) behind the operands: the part
\* that depends on the kind of instruction.
instructionTail(I, L) ==
    CASE I.opcode = "ICmp" ->
             [ tokens |-> tag("TAG_CmpInst") \o update(I.predicate),
               calls |-> << >> ]
      [] I.opcode = "InsertValue" ->
             [ tokens |-> tag("TAG_InsertValueInst") \o indicesBytes(L, I),
               calls |-> << >> ]
      [] I.opcode = "ExtractValue" ->
             [ tokens |-> tag("TAG_ExtractValueInst") \o indicesBytes(L, I),
               calls |-> << >> ]
      [] I.opcode = "PHI" ->
             [ tokens |-> tag("TAG_PHINode"),
               calls |-> [ k \in DOMAIN I.incoming |->
                             << "value", BasicBlock(I.incoming[k]) >> ] ]
      [] OTHER -> [ tokens |-> << >>, calls |-> << >> ]

\* FunctionHashCalculator::basicBlockHash(BB)
basicBlockHash(B) ==
    [ tokens |-> tag("TAG_BasicBlock"),
      calls  |-> [ k \in DOMAIN B.insts |-> << "instruction", B.insts[k].id >> ] ]

\* moduleHash(M), of either calculator.
moduleHash(M) ==
    tag("TAG_Datalayout") \o memHash(M.DataLayoutStr)
        \o tag("TAG_Triple") \o memHash(M.TargetTriple)

\* signatureHash with the calling convention fed only for a function that
\* has parameters and returns void.
signatureHashBoth(F) ==
    [ tokens |->
          tag("TAG_Signature") \o tag("TAG_AttributeList")
            \o (IF F.gc # ""
                THEN tag("TAG_Signature_GC") \o memHash(F.gc) ELSE << >>)
            \o (IF F.section # ""
                THEN tag("TAG_Signature_Sec") \o memHash(F.section)
                ELSE << >>)
            \o tag("TAG_Signature_VarArg") \o update(F.isVarArg)
            \o (IF Len(F.params) # 0 /\ F.returnType = VoidTy
                THEN tag("TAG_Signature_CC") \o update(F.callingConv)
                ELSE << >>)
            \o typeHash(FunctionTy(F.params, F.isVarArg, F.returnType))
            \o tag("TAG_Signature_Arg"),
      calls |-> [ k \in DOMAIN F.args |-> << "value", Argument(F.args[k].id) >> ] ]

\* FunctionHashCalculator::signatureHash(F): an empty attribute list, and
\* the calls that number the arguments.
signatureHash(F) ==
    [ tokens |->
          tag("TAG_Signature") \o tag("TAG_AttributeList")
            \o (IF F.gc # ""
                THEN tag("TAG_Signature_GC") \o memHash(F.gc) ELSE << >>)
            \o (IF F.section # ""
                THEN tag("TAG_Signature_Sec") \o memHash(F.section)
                ELSE << >>)
            \o tag("TAG_Signature_VarArg") \o update(F.isVarArg)
            \o (IF Len(F.params) # 0 \/ F.returnType = VoidTy
                THEN tag("TAG_Signature_CC") \o update(F.callingConv)
                ELSE << >>)
            \o typeHash(FunctionTy(F.params, F.isVarArg, F.returnType))
            \o tag("TAG_Signature_Arg"),
      calls |-> [ k \in DOMAIN F.args |-> << "value", Argument(F.args[k].id) >> ] ]

\* The loop over the successors with the blocks put at the bottom of FnBBs,
\* so that the block pushed first is taken first.
RECURSIVE pushSuccessorsBelow(_, _, _)
pushSuccessorsBelow(Succs, Stack, Visited) ==
    IF Succs = << >> THEN [ FnBBs |-> Stack, VisitedBBs |-> Visited ]
    ELSE IF Head(Succs) \in Visited
    THEN pushSuccessorsBelow(Tail(Succs), Stack, Visited)
    ELSE pushSuccessorsBelow(Tail(Succs), << Head(Succs) >> \o Stack,
                             Visited \cup { Head(Succs) })

\* The loop over the successors of BB's terminator: the blocks not seen
\* before are put on FnBBs and into VisitedBBs.
RECURSIVE pushSuccessors(_, _, _)
pushSuccessors(Succs, Stack, Visited) ==
    IF Succs = << >> THEN [ FnBBs |-> Stack, VisitedBBs |-> Visited ]
    ELSE IF Head(Succs) \in Visited
    THEN pushSuccessors(Tail(Succs), Stack, Visited)
    ELSE pushSuccessors(Tail(Succs), Append(Stack, Head(Succs)),
                        Visited \cup { Head(Succs) })

\* VaribleHashCalculator::comdatHash()
comdatHash(Gv) ==
    tag("TAG_GVComdat") \o updateString(Gv.comdat[1])
        \o update(Gv.comdat[2])

\* Gv->hasName() && Gv->hasDefinitiveInitializer()
hashesInitializer(Gv) == Gv.name # "" /\ hasDefinitiveInitializer(Gv)

\* VaribleHashCalculator::calculateVaribleHash(M): the tokens, and the call
\* of constantHash for the initializer.
calculateVaribleHash(Gv, M) ==
    [ tokens |->
          tag("TAG_GlobalVarible") \o moduleHash(M) \o typeHash(Gv.valueType)
            \o tag("TAG_GVConstant") \o update(Gv.isConstant)
            \o tag("TAG_GVThreadLocalMode") \o update(Gv.threadLocalMode)
            \o tag("TAG_GVAlignment") \o numberHash(Gv.alignment)
            \o tag("TAG_GVUnnamedAddr") \o update(Gv.unnamedAddr)
            \o (IF Gv.comdat # NoComdat THEN comdatHash(Gv) ELSE << >>)
            \o (IF hashesInitializer(Gv)
                THEN tag("TAG_GVInitValue") ELSE << >>),
      calls |-> IF hashesInitializer(Gv)
                THEN << << "constant", Gv.initializer >> >> ELSE << >> ]

\* GlobalValue::getAlignment() of an alias: the alignment of the global
\* object behind the aliasee (GlobalAlias::getBaseObject), 0 for a function
\* of the model.
RECURSIVE aliasAlignment(_)
aliasAlignment(Ga) ==
    LET Base == stripPointerCasts(Ga.aliasee)
    IN  IF Base[1] # "GlobalValue" THEN 0
        ELSE CASE Globals[Base[2]].isa = "GlobalVariable" ->
                      Globals[Base[2]].alignment
               [] Globals[Base[2]].isa = "GlobalAlias" ->
                      aliasAlignment(Globals[Base[2]])
               [] OTHER -> 0

\* AliasHashCalculator::calculate(): the tokens, and the call of constantHash
\* for the aliasee.
calculateAliasHash(Ga) ==
    [ tokens |->
          tag("TAG_GlobalAlias") \o typeHash(Ga.valueType)
            \o update(Ga.linkage)
            \o tag("TAG_GVVisibility") \o update(Ga.visibility)
            \o tag("TAG_GVThreadLocalMode") \o update(Ga.threadLocalMode)
            \o tag("TAG_GVAlignment") \o numberHash(aliasAlignment(Ga))
            \o tag("TAG_GVUnnamedAddr") \o update(Ga.unnamedAddr)
            \o tag("TAG_GVDLLStorageClassType") \o update(Ga.dllStorageClass),
      calls |-> << << "constant", Ga.aliasee >> >> ]

-----------------------------------------------------------------------------
(* The globals hashed: pairs of a global and a variant of it. *)

\* The same value under another identity.
relabelValue(V) == IF V[1] = "Constant" THEN V ELSE << V[1], V[2] \o "'" >>

\* The instruction I as another object, Shift bytes further in memory.
relabelInst(I, Shift) ==
    [ I EXCEPT !.id = @ \o "'",
               !.name = "v." \o @,
               !.storage = @ + Shift,
               !.operands = [ k \in DOMAIN @ |-> relabelValue(@[k]) ],
               !.incoming = [ k \in DOMAIN @ |-> @[k] \o "'" ],
               !.successors = [ k \in DOMAIN @ |-> @[k] \o "'" ] ]

\* The function F with every argument, instruction and basic block another
\* object of another name, and nothing else changed: the objects of F
\* themselves under other names (Shift = 0), or a second function beside F.
renamed(F, Shift) ==
    [ F EXCEPT
        !.args = [ k \in DOMAIN @ |->
                     [ id |-> @[k].id \o "'", name |-> "arg." \o @[k].name,
                       type |-> @[k].type ] ],
        !.blocks = [ k \in DOMAIN @ |->
                       [ id |-> @[k].id \o "'", name |-> "bb." \o @[k].name,
                         insts |-> [ j \in DOMAIN @[k].insts |->
                                       relabelInst(@[k].insts[j], Shift) ] ] ] ]

RECURSIVE Reverse(_)
Reverse(s) == IF s = << >> THEN << >> ELSE Reverse(Tail(s)) \o << Head(s) >>

\* The function F with the blocks behind its entry block in the opposite
\* order in its block list.
reordered(F) ==
    [ F EXCEPT !.blocks = << Head(@) >> \o Reverse(Tail(@)) ]

\* The function F with the block U put at position Pos of its block list.
withBlock(F, Pos, U) ==
    [ F EXCEPT !.blocks = SubSeq(@, 1, Pos - 1) \o << U >>
                              \o SubSeq(@, Pos, Len(@)) ]

\* Blocks to add: one that computes and branches to the block Target, and one
\* that inserts into a pair and returns.
DeadBr(Target) ==
    Block("dead", << Instruction("d1", "Add", I32,
                                 << Argument("a0"), Int32(7) >>),
                     ICmpEq("d2", InstructionRef("d1"), Int32(7)),
                     Br("d3", Target) >>)

DeadRet ==
    Block("dead", << InsertValue("d1", Constant(UndefValue(PairTy)),
                                 Argument("a0"), << 0 >>, 192),
                     Ret("d2", Argument("a0")) >>)

\* The blocks of F reachable from its entry block through successors.
RECURSIVE reachableFrom(_, _)
reachableFrom(F, Seen) ==
    LET next == Seen \cup
                UNION { Range(Last(blockOf(F, b).insts).successors) : b \in Seen }
    IN  IF next = Seen THEN Seen ELSE reachableFrom(F, next)

reachable(F) == reachableFrom(F, { F.blocks[1].id })

\* The distance in memory between an instruction of a function and the same
\* instruction of a second function.
ObjectSize == 64

\* The functions hashed first.
BaseFunctions ==
    { AddConstant(1), Diamond, Loop, Aggregate(0), AddressOfGlobal("y"),
      AddressOfGlobal("ay") }
      \cup { Returning(Params, RetTy) :
               Params \in { << >>, << I32 >> }, RetTy \in { VoidTy, I32 } }

\* F with a block added that its entry does not reach; the blocks to add
\* use the argument a0 and return an i32.
withDeadBlock(F) ==
    IF F.params = << I32 >> /\ F.returnType = I32
    THEN { withBlock(F, Pos, U) :
             Pos \in 2 .. Len(F.blocks) + 1,
             U \in { DeadRet }
                     \cup { DeadBr(F.blocks[k].id) : k \in DOMAIN F.blocks } }
    ELSE {}

\* The functions hashed second, after F: F itself, F renamed, F with a block
\* added, F with another calling convention (fastcc is 8), and F with
\* another constant, another index or another global.
FunctionVariants(F) ==
    { F, renamed(F, 0), renamed(F, ObjectSize) } \cup withDeadBlock(F)
        \cup { [ F EXCEPT !.callingConv = 8 ], reordered(F) }
        \cup (IF F = AddConstant(1) THEN { AddConstant(2) } ELSE {})
        \cup (IF F = Aggregate(0) THEN { Aggregate(1) } ELSE {})
        \cup (IF F = AddressOfGlobal("y")
              THEN { AddressOfGlobal("w"), AddressOfGlobal("x") } ELSE {})
        \cup (IF F = AddressOfGlobal("ay")
              THEN { AddressOfGlobal("aw"), AddressOfGlobal("ax") } ELSE {})

\* The variables hashed first: those of the module, and x in a comdat.
BaseVariables ==
    { Globals[id] : id \in { "x", "y", "self", "p", "pf" } }
        \cup { [ Globals["x"] EXCEPT !.comdat = Comdat("c", 0) ] }

\* Other initializers of the type of Gv's.
otherInitializers(Gv) ==
    CASE Gv.id = "x"  -> { ConstantInt(I32, << 2 >>) }
      [] Gv.id = "y"  -> { ConstantInt(I32, << 1 >>) }
      [] Gv.id = "pf" -> { GlobalRef("g"), GlobalRef("y") }
      [] OTHER        -> { GlobalRef("x") }

\* x as an i128 of the same value: two 64-bit words, the low word first.
WideVariable ==
    [ Globals["x"] EXCEPT !.valueType = IntegerTy(128),
                          !.initializer = ConstantInt(IntegerTy(128), << 1, 0 >>) ]

\* The variables hashed second, after Gv: Gv itself, and Gv with one of its
\* properties changed, or x made wider.
VariableVariants(Gv) ==
    { Gv }
      \cup { [ Gv EXCEPT !.name = n ] : n \in { "", "z" } }
      \cup { [ Gv EXCEPT !.linkage = l ] : l \in { "internal", "weak_any" } }
      \cup { [ Gv EXCEPT !.visibility = "hidden" ],
             [ Gv EXCEPT !.dllStorageClass = "dllexport" ],
             [ Gv EXCEPT !.source = "other.c" ],
             [ Gv EXCEPT !.isConstant = TRUE ],
             [ Gv EXCEPT !.threadLocalMode = "GeneralDynamic" ],
             [ Gv EXCEPT !.alignment = 8 ] }
      \cup { [ Gv EXCEPT !.comdat = c ] :
               c \in { NoComdat, Comdat("c", 0), Comdat("d", 0),
                       Comdat("c", 1) } }
      \cup { [ Gv EXCEPT !.initializer = i ] : i \in otherInitializers(Gv) }
      \cup (IF Gv = Globals["x"] THEN { WideVariable } ELSE {})

\* The aliases hashed first: of a function, of a declared variable, and of
\* an alias.
BaseAliases ==
    { Alias("a", "a", GlobalRef(id)) : id \in { "f", "y", "ay" } }

\* Other aliasees of the type of Ga's.
otherAliasees(Ga) ==
    CASE Ga.aliasee = GlobalRef("f")  -> { GlobalRef("g") }
      [] Ga.aliasee = GlobalRef("y")  -> { GlobalRef("w"), GlobalRef("x") }
      [] Ga.aliasee = GlobalRef("ay") -> { GlobalRef("aw") }

\* The aliases hashed second, after Ga: Ga itself, and Ga with its name, its
\* linkage or its aliasee changed.
AliasVariants(Ga) ==
    { Ga, [ Ga EXCEPT !.name = "b" ], [ Ga EXCEPT !.linkage = "internal" ] }
      \cup { [ Ga EXCEPT !.aliasee = c ] : c \in otherAliasees(Ga) }

\* The layouts a run may have.
Layouts == { Layout(4096), Layout(8192) }

\* A global to hash, in a run of layout L.
subject(G, L) == [ global |-> G, layout |-> L ]

\* The pairs of globals a behaviour hashes: a function and a variant of it,
\* either in its own layout, or a variable and a variant of it.
SubjectPairs ==
    UNION { { << subject(F, Layout(4096)), subject(F2, L) >> :
                F2 \in FunctionVariants(F), L \in Layouts } :
            F \in BaseFunctions }
      \cup
    UNION { { << subject(Gv, Layout(4096)), subject(Gv2, Layout(4096)) >> :
                Gv2 \in VariableVariants(Gv) } :
            Gv \in BaseVariables }
      \cup
    UNION { { << subject(Ga, Layout(4096)), subject(Ga2, Layout(4096)) >> :
                Ga2 \in AliasVariants(Ga) } :
            Ga \in BaseAliases }

-----------------------------------------------------------------------------
(* The computations. *)

\* main() is not running.
mainOff ==
    /\ pc = "off"
    /\ exitCode = -1
    /\ diag = ""
    /\ warned = FALSE
    /\ outOnDisk = FALSE
    /\ kept = FALSE
    /\ dbOpen = FALSE
    /\ ticketFile = << >>
    /\ ticketIo = "ok"
    /\ outputOpens = FALSE
    /\ store = [ hasTicketIndex |-> FALSE, hasFragmentIndex |-> FALSE,
                 hasNameIndex |-> FALSE, names |-> {} ]
    /\ Uuid = << >>
    /\ Magics = [ CtorName |-> null, DtorName |-> null ]
    /\ processed = << >>
    /\ Sections = EmptyMap
    /\ created = << >>
    /\ Groups = EmptyMap
    /\ Symbols = << >>
    /\ OrderedSymbols = << >>
    /\ SectionHeaders = << >>
    /\ OS = << >>
    /\ Header = initELFHeader
    /\ FileHeader = << >>
    /\ OutputSections = EmptyMap
    /\ cursor = 0
    /\ symtabOut = << >>

\* A walk that starts with every block of the function, in list order.
allBlocks(F) == [ k \in DOMAIN F.blocks |-> F.blocks[Len(F.blocks) + 1 - k].id ]

\* FnBBs.push_back(&Fn->getEntryBlock()): the walk starts with the entry
\* block alone.
entryBlocks(F) == << F.blocks[1].id >>

HashInit ==
    /\ mainOff
    /\ fragmentIdle
    /\ reportIdle
    /\ subjects \in SubjectPairs
    /\ turn = 1
    /\ hstep = "begin"
    /\ Hash = << >>
    /\ sn_map = EmptyMap
    /\ global_numbers = EmptyMap
    /\ work = << >>
    /\ FnBBs = << >>
    /\ VisitedBBs = {}
    /\ trail = << >>
    /\ results = << >>

\* The trail with the event, when there is one.
noted(Trail, Event) == IF Event = NoEvent THEN Trail ELSE Append(Trail, Event)

\* FunctionHashCalculator::calculateFunctionHash(M), up to its loop over the
\* blocks: beginCalculate() empties both tables.
CalculateFunctionHash ==
    /\ hstep = "begin"
    /\ Subject.isa = "Function"
    /\ LET sig == signatureHash(Subject)
       IN  /\ Hash' = tag("TAG_GlobalFunction") \o moduleHash(Module)
                          \o sig.tokens
           /\ work' = sig.calls
    /\ sn_map' = EmptyMap
    /\ global_numbers' = EmptyMap
    /\ FnBBs' = entryBlocks(Subject)
    /\ VisitedBBs' = { entryBlocks(Subject)[1] }
    /\ hstep' = "run"
    /\ UNCHANGED << mainVars, fragmentVars, reportVars, subjects, turn, trail, results >>

\* VaribleHashCalculator::calculateVaribleHash(M)
CalculateVaribleHash ==
    /\ hstep = "begin"
    /\ Subject.isa = "GlobalVariable"
    /\ LET r == calculateVaribleHash(Subject, Module)
       IN  /\ Hash' = r.tokens
           /\ work' = r.calls
    /\ sn_map' = EmptyMap
    /\ global_numbers' = EmptyMap
    /\ hstep' = "run"
    /\ UNCHANGED << mainVars, fragmentVars, reportVars, subjects, turn, FnBBs, VisitedBBs, trail,
                    results >>

\* AliasHashCalculator::calculate()
CalculateAliasHash ==
    /\ hstep = "begin"
    /\ Subject.isa = "GlobalAlias"
    /\ LET r == calculateAliasHash(Subject)
       IN  /\ Hash' = r.tokens
           /\ work' = r.calls
    /\ sn_map' = EmptyMap
    /\ global_numbers' = EmptyMap
    /\ hstep' = "run"
    /\ UNCHANGED << mainVars, fragmentVars, reportVars, subjects, turn, FnBBs, VisitedBBs, trail,
                    results >>

\* A call of typeHash(Ty).
TypeHash ==
    /\ hstep = "run"
    /\ work # << >>
    /\ Head(work)[1] = "type"
    /\ Hash' = Hash \o typeHash(Head(work)[2])
    /\ work' = Tail(work)
    /\ UNCHANGED << mainVars, fragmentVars, reportVars, subjects, turn, hstep, sn_map, global_numbers,
                    FnBBs, VisitedBBs, trail, results >>

\* A call of valueHash(V).
ValueHash ==
    /\ hstep = "run"
    /\ work # << >>
    /\ Head(work)[1] = "value"
    /\ LET r == valueHash(Head(work)[2], Subject, sn_map)
       IN  /\ Hash' = Hash \o r.tokens
           /\ work' = r.calls \o Tail(work)
           /\ sn_map' = r.sn_map
    /\ UNCHANGED << mainVars, fragmentVars, reportVars, subjects, turn, hstep, global_numbers, FnBBs,
                    VisitedBBs, trail, results >>

\* A call of constantHash(V).
ConstantHash ==
    /\ hstep = "run"
    /\ work # << >>
    /\ Head(work)[1] = "constant"
    /\ LET r == constantHash(Head(work)[2], Subject, global_numbers)
       IN  /\ Hash' = Hash \o r.tokens
           /\ work' = r.calls \o Tail(work)
           /\ global_numbers' = r.global_numbers
           /\ trail' = noted(trail, r.event)
    /\ UNCHANGED << mainVars, fragmentVars, reportVars, subjects, turn, hstep, sn_map, FnBBs,
                    VisitedBBs, results >>

\* A call of globalValueHash(V).
GlobalValueHash ==
    /\ hstep = "run"
    /\ work # << >>
    /\ Head(work)[1] = "global"
    /\ LET r == globalValueHash(Head(work)[2], Subject, global_numbers)
       IN  /\ Hash' = Hash \o r.tokens
           /\ work' = r.calls \o Tail(work)
           /\ global_numbers' = r.global_numbers
    /\ UNCHANGED << mainVars, fragmentVars, reportVars, subjects, turn, hstep, sn_map, FnBBs,
                    VisitedBBs, trail, results >>

\* A call of instructionHash(V), up to the end of its loop over the operands.
InstructionHash ==
    /\ hstep = "run"
    /\ work # << >>
    /\ Head(work)[1] = "instruction"
    /\ LET r == instructionHash(Subject, instOf(Subject, Head(work)[2]))
       IN  /\ Hash' = Hash \o r.tokens
           /\ work' = r.calls \o Tail(work)
    /\ UNCHANGED << mainVars, fragmentVars, reportVars, subjects, turn, hstep, sn_map, global_numbers,
                    FnBBs, VisitedBBs, trail, results >>

\* The rest of instructionHash(V), behind the operands.
InstructionTail ==
    /\ hstep = "run"
    /\ work # << >>
    /\ Head(work)[1] = "tail"
    /\ LET r == instructionTail(instOf(Subject, Head(work)[2]), SubjectLayout)
       IN  /\ Hash' = Hash \o r.tokens
           /\ work' = r.calls \o Tail(work)
    /\ UNCHANGED << mainVars, fragmentVars, reportVars, subjects, turn, hstep, sn_map, global_numbers,
                    FnBBs, VisitedBBs, trail, results >>

\* The loop over the blocks takes the block on top of FnBBs: valueHash(BB),
\* basicBlockHash(BB), and then the loop over the successors.
NextBlock ==
    /\ hstep = "run"
    /\ Subject.isa = "Function"
    /\ work = << >>
    /\ FnBBs # << >>
    /\ work' = << << "value", BasicBlock(Last(FnBBs)) >>,
                  << "basic_block", Last(FnBBs) >>,
                  << "successors", Last(FnBBs) >> >>
    /\ FnBBs' = SubSeq(FnBBs, 1, Len(FnBBs) - 1)
    /\ trail' = Append(trail, << "block", Last(FnBBs) >>)
    /\ UNCHANGED << mainVars, fragmentVars, reportVars, subjects, turn, hstep, Hash, sn_map,
                    global_numbers, VisitedBBs, results >>

\* A call of basicBlockHash(BB).
BasicBlockHash ==
    /\ hstep = "run"
    /\ work # << >>
    /\ Head(work)[1] = "basic_block"
    /\ LET r == basicBlockHash(blockOf(Subject, Head(work)[2]))
       IN  /\ Hash' = Hash \o r.tokens
           /\ work' = r.calls \o Tail(work)
    /\ UNCHANGED << mainVars, fragmentVars, reportVars, subjects, turn, hstep, sn_map, global_numbers,
                    FnBBs, VisitedBBs, trail, results >>

\* The loop over the successors of the terminator of the block just hashed.
PushSuccessors ==
    /\ hstep = "run"
    /\ work # << >>
    /\ Head(work)[1] = "successors"
    /\ LET Term == Last(blockOf(Subject, Head(work)[2]).insts)
           r    == pushSuccessors(Term.successors, FnBBs, VisitedBBs)
       IN  /\ FnBBs' = r.FnBBs
           /\ VisitedBBs' = r.VisitedBBs
    /\ work' = Tail(work)
    /\ UNCHANGED << mainVars, fragmentVars, reportVars, subjects, turn, hstep, Hash, sn_map,
                    global_numbers, trail, results >>

\* The computation is over: what it fed and numbered is kept, and the next
\* global gets a calculator of its own.
FinishHash ==
    /\ hstep = "run"
    /\ work = << >>
    /\ FnBBs = << >>
    /\ results' = Append(results,
                         [ Hash |-> Hash, sn_map |-> sn_map,
                           global_numbers |-> global_numbers,
                           trail |-> trail ])
    /\ turn' = turn + 1
    /\ hstep' = IF turn = 2 THEN "done" ELSE "begin"
    /\ Hash' = << >>
    /\ sn_map' = EmptyMap
    /\ global_numbers' = EmptyMap
    /\ VisitedBBs' = {}
    /\ trail' = << >>
    /\ UNCHANGED << mainVars, fragmentVars, reportVars, subjects, work, FnBBs >>

HashNext ==
    \/ CalculateFunctionHash
    \/ CalculateVaribleHash
    \/ CalculateAliasHash
    \/ TypeHash
    \/ ValueHash
    \/ ConstantHash
    \/ GlobalValueHash
    \/ InstructionHash
    \/ InstructionTail
    \/ NextBlock
    \/ BasicBlockHash
    \/ PushSuccessors
    \/ FinishHash

HashSpec == HashInit /\ [][HashNext]_vars

\* Every call that can be made is made in the end.
HashLive == HashSpec /\ WF_vars(HashNext)

-----------------------------------------------------------------------------
(* Properties of the hash calculator. *)

\* Both computations are over.
hashed == hstep = "done"

\* The two globals hashed are functions, or variables.
functionsHashed == hashed /\ subjects[1].global.isa = "Function"

variablesHashed == hashed /\ subjects[1].global.isa = "GlobalVariable"

\* Some instruction of a block of Blocks has the opcode Opcode.
hasOpcode(F, Blocks, Opcode) ==
    \E b \in Blocks :
        \E k \in DOMAIN blockOf(F, b).insts :
            blockOf(F, b).insts[k].opcode = Opcode

\* C12: the tokens fed for a global are a function of the IR alone: the same
\* function hashed in two runs, whatever the addresses of its objects in each
\* run, is fed as the same sequence of tokens.
C12_SameIRSameBytes ==
    functionsHashed /\ subjects[1].global = subjects[2].global
        => results[1].Hash = results[2].Hash

\* C13: two functions that differ in the names of their arguments,
\* instructions and basic blocks only are fed as the same sequence of tokens.
C13_RenamedSameBytes ==
    functionsHashed /\ subjects[1].layout = subjects[2].layout
        => \A Shift \in { 0, ObjectSize } :
              subjects[2].global = renamed(subjects[1].global, Shift)
                  => results[1].Hash = results[2].Hash

\* The variables A and B agree on every property outside Fields.
sameExcept(A, B, Fields) == \A f \in DOMAIN A \ Fields : A[f] = B[f]

\* What the claim lists as ignored, and as hashed.
IgnoredProperties ==
    { "linkage", "visibility", "dllStorageClass", "name", "source" }

HashedProperties ==
    { "isConstant", "threadLocalMode", "alignment", "initializer", "comdat" }

\* C14: two variables that differ in linkage, visibility, DLL storage class,
\* name or source file name only are fed as the same sequence of tokens, and
\* two that differ in exactly one of constness, thread-local mode, alignment,
\* initializer or comdat are fed as different sequences.
C14_LinkageIgnorance ==
    variablesHashed =>
        LET A == subjects[1].global
            B == subjects[2].global
        IN  /\ sameExcept(A, B, IgnoredProperties)
                  => results[1].Hash = results[2].Hash
            /\ \A f \in HashedProperties :
                  A[f] # B[f] /\ sameExcept(A, B, { f })
                      => results[1].Hash # results[2].Hash

\* The second function hashed is the first with a block added that the entry
\* block does not reach, its objects where they were.
deadBlockAdded ==
    /\ functionsHashed
    /\ subjects[1].layout = subjects[2].layout
    /\ subjects[2].global \in withDeadBlock(subjects[1].global)

\* C15: a block added to a function that the entry block does not reach
\* through successors, wherever it is in the block list and whatever it
\* branches to, changes neither the tokens fed for the function nor the
\* number of any value the walk reaches.
C15_UnreachableBlock ==
    deadBlockAdded =>
        /\ "dead" \notin reachable(subjects[2].global)
        /\ results[2].Hash = results[1].Hash
        /\ results[2].sn_map = results[1].sn_map

\* A block that branches to a reachable block was added between the blocks
\* of a function of several blocks, and both functions were hashed.
C15_Witness ==
    /\ deadBlockAdded
    /\ Len(subjects[1].global.blocks) > 1
    /\ subjects[2].global.blocks[2].id = "dead"
    /\ Last(subjects[2].global.blocks[2].insts).successors # << >>
    /\ Range(Last(subjects[2].global.blocks[2].insts).successors)
           \subseteq reachable(subjects[2].global)
    /\ Len(results[2].trail) > 1

\* The event is a visit of a global by constantHash.
isVisit(Event) == Event[1] \in { "first", "later" }

\* In the trail T a visit of a global is a first visit exactly if no visit of
\* that global is before it.
visitedOnce(T) ==
    \A i \in DOMAIN T :
        isVisit(T[i]) =>
            (T[i][1] = "first"
                <=> ~ \E j \in 1 .. i - 1 :
                        isVisit(T[j]) /\ T[j][2] = T[i][2])

\* The call on top of the stack is of the function Callee, for a variable
\* with a definitive initializer.
visits(Callee) ==
    /\ hstep = "run"
    /\ work # << >>
    /\ Head(work)[1] = Callee
    /\ LET Id == IF Callee = "global" THEN Head(work)[2]
                 ELSE IF Head(work)[2][1] = "GlobalValue"
                      THEN Head(work)[2][2] ELSE "none"
       IN  /\ Id # "none"
           /\ hasDefinitiveInitializer(GlobalAt(Id, Subject))

\* What a visit of a global does: the first one numbers the global and goes
\* on with its initializer; a later one feeds the GUID and the number, and
\* calls nothing more.
visitSteps ==
    /\ visits("constant") =>
          LET Id == Head(work)[2][2]
          IN  IF Id \notin DOMAIN global_numbers
              THEN /\ global_numbers' =
                          Put(global_numbers, Id,
                              Cardinality(DOMAIN global_numbers))
                   /\ work' = << << "constant",
                                    GlobalAt(Id, Subject).initializer >> >>
                                  \o Tail(work)
              ELSE /\ global_numbers' = global_numbers
                   /\ work' = << << "global", Id >> >> \o Tail(work)
    /\ visits("global") =>
          LET Id == Head(work)[2]
          IN  /\ Id \in DOMAIN global_numbers
              /\ Hash' = Hash \o numberHash(getGUID(GlobalAt(Id, Subject)))
                              \o numberHash(global_numbers[Id])
              /\ global_numbers' = global_numbers
              /\ work' = Tail(work)

\* C16: hashing a variable whose initializer refers to itself, or to
\* variables that refer to each other, ends; the first visit of a global by
\* constantHash numbers it and hashes its initializer, and every later visit
\* feeds its GUID and its number and nothing of its initializer.
C16_CycleTermination ==
    /\ <>hashed
    /\ [](visitedOnce(trail) /\ \A i \in DOMAIN results :
                                    visitedOnce(results[i].trail))
    /\ [][visitSteps]_vars

\* A variable whose initializer leads back to it was hashed, and a global was
\* visited a second time.
C16_Witness ==
    /\ variablesHashed
    /\ subjects[1].global.id \in { "self", "p" }
    /\ \E i \in DOMAIN results[1].trail : results[1].trail[i][1] = "later"
    /\ \E i \in DOMAIN results[1].trail :
          results[1].trail[i] = << "first", subjects[1].global.id >>

-----------------------------------------------------------------------------
(* Fragment::make_unique.  Memory is a range of addresses; what is written
   is recorded as the ranges of addresses each Section takes. *)

\* The most SectionContents one call of make_unique is given.
MaxSections == 2

\* sizeof and alignof of the types laid out in a fragment.
sizeof(Ty) ==
    CASE Ty = "uint8_t" -> 1
      [] Ty = "InternalFixup" -> 12
      [] Ty = "ExternalFixup" -> 32
      [] Ty = "Section" -> 16

alignof(Ty) ==
    CASE Ty = "uint8_t" -> 1
      [] Ty = "InternalFixup" -> 4
      [] Ty = "ExternalFixup" -> 8
      [] Ty = "Section" -> 8

\* A region laid out without the bytes that align it.
partSizeBytesPacked(Ty, Pos, Num) == Pos + Num * sizeof(Ty)

\* Section::partSizeBytes<Ty>(Pos, Num)
partSizeBytes(Ty, Pos, Num) ==
    IF Num > 0 THEN aligned(Pos, alignof(Ty)) + Num * sizeof(Ty) ELSE Pos

\* Section::sizeBytes(DataSize, NumIfixups, NumXfixups): the Section record,
\* then the data, the internal fixups and the external fixups.
sizeBytes(DataSize, NumIfixups, NumXfixups) ==
    partSizeBytes("ExternalFixup",
        partSizeBytes("InternalFixup",
            partSizeBytes("uint8_t", sizeof("Section"), DataSize),
            NumIfixups),
        NumXfixups)

\* SparseArray<std::uint64_t>::size_bytes(NumEntries): the bitmap and one
\* element per entry.
size_bytes(NumEntries) == 8 + 8 * NumEntries

\* A SectionContent: its kind, and how many bytes of data, internal fixups
\* and external fixups it holds.
SectionContent(Type, Data, Ifixups, Xfixups) ==
    [ Type |-> Type, Data |-> Data, Ifixups |-> Ifixups, Xfixups |-> Xfixups ]

SectionContents ==
    { SectionContent(t, d, i, x) :
        t \in { "Data", "Text", "ReadOnly" }, d \in { 0, 3 }, i \in { 0, 1 },
        x \in { 0, 1 } }

\* The sequences [First, Last) that make_unique is called with.
ContentLists ==
    UNION { [ 1 .. n -> SectionContents ] : n \in 1 .. MaxSections }

\* Where operator new[] may put the block.
Allocations == { 4096, 4112 }

\* The first loop of make_unique: Size after the first K contents.
RECURSIVE sizeAfter(_, _)
sizeAfter(Cs, K) ==
    IF K = 0 THEN size_bytes(Len(Cs))
    ELSE aligned(sizeAfter(Cs, K - 1), alignof("Section"))
            + sizeBytes(Cs[K].Data, Cs[K].Ifixups, Cs[K].Xfixups)

\* Section::Section(D, I, X) constructed at the address Start for the
\* content C: where its three arrays are put and where the constructor ends,
\* and the outcome of its assert.
Section(C, Start) ==
    LET P0     == Start + sizeof("Section")
        dataAt == aligned(P0, alignof("uint8_t"))
        P1     == IF C.Data > 0 THEN dataAt + C.Data ELSE P0
        ifixAt == aligned(P1, alignof("InternalFixup"))
        P2     == IF C.Ifixups > 0
                  THEN ifixAt + C.Ifixups * sizeof("InternalFixup") ELSE P1
        xfixAt == aligned(P2, alignof("ExternalFixup"))
        P3     == IF C.Xfixups > 0
                  THEN xfixAt + C.Xfixups * sizeof("ExternalFixup") ELSE P2
    IN  [ Type |-> C.Type, start |-> Start, end |-> P3,
          DataSize_ |-> C.Data, NumIfixups_ |-> C.Ifixups,
          NumXfixups_ |-> C.Xfixups,
          data |-> IF C.Data > 0 THEN << dataAt, P1 >> ELSE << P0, P0 >>,
          ifixups |-> IF C.Ifixups > 0 THEN << ifixAt, P2 >> ELSE << P1, P1 >>,
          xfixups |-> IF C.Xfixups > 0 THEN << xfixAt, P3 >> ELSE << P2, P2 >>,
          ctorAssert |->
              P3 >= Start
                /\ P3 - Start = sizeBytes(C.Data, C.Ifixups, C.Xfixups) ]

FragmentInit ==
    /\ mainOff
    /\ hashIdle
    /\ reportIdle
    /\ contents \in ContentLists
    /\ fstep = "size"
    /\ AllocSize = 0
    /\ FragmentPtr = 0
    /\ OutPtr = 0
    /\ Arr_ = EmptyMap
    /\ placed = << >>
    /\ sizeAssert = TRUE

\* "Compute the number of bytes of storage that we'll need for this
\* fragment."
ComputeSize ==
    /\ fstep = "size"
    /\ AllocSize' = sizeAfter(contents, Len(contents))
    /\ fstep' = "allocate"
    /\ UNCHANGED << mainVars, hashVars, reportVars, contents, FragmentPtr,
                    OutPtr, Arr_, placed, sizeAssert >>

\* The block is allocated, the Fragment with its sparse array is constructed
\* at its start (one entry per kind among the contents), and Out points past
\* the end of the sparse array.
Allocate ==
    /\ fstep = "allocate"
    /\ \E p \in Allocations : FragmentPtr' = p
    /\ Arr_' = [ t \in { contents[k].Type : k \in DOMAIN contents } |-> -1 ]
    /\ OutPtr' = FragmentPtr' + size_bytes(Cardinality(DOMAIN Arr_'))
    /\ fstep' = "copy"
    /\ UNCHANGED << mainVars, hashVars, reportVars, contents, AllocSize, placed,
                    sizeAssert >>

\* One turn of the second loop: the next content is constructed as a Section
\* at the aligned Out, and its offset is recorded under its kind.
ConstructSection ==
    /\ fstep = "copy"
    /\ Len(placed) < Len(contents)
    /\ LET C   == contents[Len(placed) + 1]
           Scn == Section(C, aligned(OutPtr, alignof("Section")))
       IN  /\ placed' = Append(placed, Scn)
           /\ Arr_' = [ Arr_ EXCEPT ![C.Type] = Scn.start - FragmentPtr ]
           /\ OutPtr' = Scn.start + sizeBytes(Scn.DataSize_, Scn.NumIfixups_,
                                           Scn.NumXfixups_)
    /\ UNCHANGED << mainVars, hashVars, reportVars, contents, fstep, AllocSize,
                    FragmentPtr, sizeAssert >>

\* assert(Out >= Ptr.get() && static_cast<std::size_t>(Out - Ptr.get()) ==
\* Size), and the fragment is returned.
ReturnFragment ==
    /\ fstep = "copy"
    /\ Len(placed) = Len(contents)
    /\ sizeAssert' = (OutPtr >= FragmentPtr /\ OutPtr - FragmentPtr = AllocSize)
    /\ fstep' = "done"
    /\ UNCHANGED << mainVars, hashVars, reportVars, contents, AllocSize,
                    FragmentPtr, OutPtr, Arr_, placed >>

FragmentNext ==
    \/ ComputeSize
    \/ Allocate
    \/ ConstructSection
    \/ ReturnFragment

FragmentSpec == FragmentInit /\ [][FragmentNext]_vars

\* The kinds of the contents are pairwise distinct.
distinctKinds ==
    \A i, j \in DOMAIN contents :
        contents[i].Type = contents[j].Type => i = j

\* make_unique has returned a fragment made of contents of distinct kinds.
fragmentMade == fstep = "done" /\ distinctKinds

\* The ranges of addresses [a[1], a[2]) and [b[1], b[2]) share no address.
disjoint(a, b) == a[2] <= b[1] \/ b[2] <= a[1]

\* C17: for contents of pairwise distinct kinds, the size computed is the
\* number of bytes written (both asserts hold), every Section starts at an
\* address aligned to alignof(Section), inside the block and behind the
\* sparse array, Sections do not overlap, and the sparse array maps each
\* kind to the offset of its own Section, one per kind.
C17_FragmentLayout ==
    fragmentMade =>
        /\ sizeAssert
        /\ OutPtr - FragmentPtr = AllocSize
        /\ Len(placed) = Len(contents)
        /\ DOMAIN Arr_ = { contents[k].Type : k \in DOMAIN contents }
        /\ Cardinality(DOMAIN Arr_) = Len(contents)
        /\ \A k \in DOMAIN placed :
              /\ placed[k].ctorAssert
              /\ placed[k].Type = contents[k].Type
              /\ placed[k].start % alignof("Section") = 0
              /\ placed[k].start >= FragmentPtr + size_bytes(Len(contents))
              /\ placed[k].end <= FragmentPtr + AllocSize
              /\ placed[k].data[2] - placed[k].data[1] = contents[k].Data
              /\ contents[k].Ifixups > 0 =>
                    placed[k].ifixups[1] % alignof("InternalFixup") = 0
              /\ contents[k].Xfixups > 0 =>
                    placed[k].xfixups[1] % alignof("ExternalFixup") = 0
              /\ Arr_[placed[k].Type] = placed[k].start - FragmentPtr
              /\ \A j \in DOMAIN placed :
                    j # k =>
                        disjoint(<< placed[j].start, placed[j].end >>,
                                 << placed[k].start, placed[k].end >>)

\* A fragment of two Sections was made in which bytes had to be skipped to
\* align the second Section and its fixups.
C17_Witness ==
    /\ fragmentMade
    /\ Len(placed) = 2
    /\ placed[1].end < placed[2].start
    /\ placed[2].data[2] < placed[2].ifixups[1]
    /\ placed[2].NumXfixups_ > 0

-----------------------------------------------------------------------------
(* The ticket nodes of a module are added to the repository object: what is
   reported for each of them. *)

\* The most members !repo.tickets has.
MaxTickets == 2

\* !TicketNode(name: Name, digest: Digest, linkage: Linkage); the digest is
\* the sequence of its 16 stored bytes.
TicketNode(Name, Digest, Linkage) ==
    [ name |-> Name, digest |-> Digest, linkage |-> Linkage ]

\* The digests of the two ticket nodes of repo_symbol_with_prefix.ll:
\* c"v\C6>J]\C8h\C1\0F\C1\D2\F3\A7\9C5O" and
\* c"\1F8bZ\ED\DB\85O\7F@\15\DA\C7\C6\0Cc".
StrDigest ==
    << 118, 198, 62, 74, 93, 200, 104, 193, 15, 193, 210, 243, 167, 156, 53,
       79 >>

MainDigest ==
    << 31, 56, 98, 90, 237, 219, 133, 79, 127, 64, 21, 218, 199, 198, 12,
       99 >>

\* The ticket nodes !0 and !1 of the test.
StrNode == TicketNode(".str", StrDigest, "private")

MainNode == TicketNode("main", MainDigest, "external")

TicketNodes ==
    { TicketNode(n, d, l) :
        n \in { ".str", "main" }, d \in { StrDigest, MainDigest },
        l \in { "private", "external" } }

\* The lists !repo.tickets may hold.
TicketLists == UNION { [ 1 .. n -> TicketNodes ] : n \in 0 .. MaxTickets }

HexDigits ==
    << "0", "1", "2", "3", "4", "5", "6", "7", "8", "9", "a", "b", "c", "d",
       "e", "f" >>

\* A byte as two lowercase hex characters.
hexByte(b) == HexDigits[(b \div 16) + 1] \o HexDigits[(b % 16) + 1]

\* The digest with its bytes rendered first stored byte first.
RECURSIVE digestStringStored(_)
digestStringStored(Digest) ==
    IF Digest = << >> THEN ""
    ELSE hexByte(Head(Digest)) \o digestStringStored(Tail(Digest))

\* The digest as it is reported: the hex characters of its bytes, the last
\* stored byte first.
RECURSIVE digestString(_)
digestString(Digest) ==
    IF Digest = << >> THEN ""
    ELSE hexByte(Last(Digest))
            \o digestString(SubSeq(Digest, 1, Len(Digest) - 1))

\* The name without the private-symbol prefix, whatever the linkage.
symbolNamePlain(Node) == Node.name

\* The symbol name of a ticket member: a private member has the prefix of
\* private symbols before its name.
symbolName(Node) ==
    IF Node.linkage = "private" THEN ".L" \o Node.name ELSE Node.name

\* The line reported for a ticket node.
ticketLine(Node) ==
    "ticket name '" \o symbolName(Node) \o "' digest '"
        \o digestString(Node.digest) \o "' adding."

ReportInit ==
    /\ mainOff
    /\ hashIdle
    /\ fragmentIdle
    /\ tickets \in TicketLists
    /\ rstep = "run"
    /\ reported = << >>

\* The next member of !repo.tickets is added and reported.
AddTicketNode ==
    /\ rstep = "run"
    /\ Len(reported) < Len(tickets)
    /\ reported' = Append(reported,
                          [ member |-> Len(reported) + 1,
                            line |-> ticketLine(tickets[Len(reported) + 1]) ])
    /\ UNCHANGED << mainVars, hashVars, fragmentVars, tickets, rstep >>

\* Every member was added.
TicketsAdded ==
    /\ rstep = "run"
    /\ Len(reported) = Len(tickets)
    /\ rstep' = "done"
    /\ UNCHANGED << mainVars, hashVars, fragmentVars, tickets, reported >>

ReportNext ==
    \/ AddTicketNode
    \/ TicketsAdded

ReportSpec == ReportInit /\ [][ReportNext]_vars

\* C18: the members are reported once each, in the order of !repo.tickets;
\* a private member under its name behind the private-symbol prefix, an
\* external one under its name, with the digest as 32 lowercase hex
\* characters, last stored byte first: '.str' with the test's first digest
\* as '.L.str' and '4f359ca7f3d2c10fc168c85d4a3ec676', 'main' with the
\* second as 'main' and '630cc6c7da15407f4f85dbed5a62381f'.
C18_TicketsReported ==
    /\ Len(reported) <= Len(tickets)
    /\ rstep = "done" => Len(reported) = Len(tickets)
    /\ \A k \in DOMAIN reported :
          /\ reported[k].member = k
          /\ tickets[k] = StrNode =>
                reported[k].line =
                    "ticket name '.L.str' digest '4f359ca7f3d2c10fc168c85d4a3ec676' adding."
          /\ tickets[k] = MainNode =>
                reported[k].line =
                    "ticket name 'main' digest '630cc6c7da15407f4f85dbed5a62381f' adding."
          /\ tickets[k].digest = StrDigest =>
                reported[k].line =
                    "ticket name '"
                        \o (IF tickets[k].linkage = "private" THEN ".L"
                            ELSE "")
                        \o tickets[k].name
                        \o "' digest '4f359ca7f3d2c10fc168c85d4a3ec676' adding."
          /\ Len(digestString(tickets[k].digest)) = 32

\* The module of the test was added: '.str', private, then 'main', external.
C18_Witness ==
    /\ rstep = "done"
    /\ tickets = << StrNode, MainNode >>
    /\ Len(reported) = 2

-----------------------------------------------------------------------------
(* Properties of the writer's passes. *)

\* The writes between the placeholder header and .strtab: output sections
\* with their relocations, then group bodies.
bodyWrites == 2 .. Len(OS) - 3

\* The file as the passes wrote it: the header first, then sections, then
\* group bodies, then .strtab, .symtab and the section header table, each
\* behind the one before.
passesInOrder ==
    /\ Len(OS) >= 4
    /\ OS[1].what = "ehdr" /\ OS[1].at = 0
    /\ OS[Len(OS) - 2].what = "strtab"
    /\ OS[Len(OS) - 1].what = "symtab"
    /\ OS[Len(OS)].what = "shdrs"
    /\ \A i \in bodyWrites :
          /\ OS[i].what[1] \in { "section", "rela", "group" }
          /\ \A j \in bodyWrites :
                i < j /\ OS[i].what[1] = "group" => OS[j].what[1] = "group"
    /\ \A i \in 1 .. Len(OS) - 1 : OS[i].at + OS[i].size <= OS[i + 1].at

\* The section header table is written, or the run is past it.
tableWritten == pc = "finish" \/ succeeded

\* C21: the passes run in the order header, output sections, group bodies,
\* .strtab, .symtab, section header table, header rewrite; the header of the
\* final file has e_shoff at the table, e_shnum the number of headers and
\* e_shstrndx = 1, a header of type SHT_STRTAB; no header is added or changed
\* once the table is written, and the header is rewritten last.
C21_PassOrder ==
    /\ [](succeeded =>
            /\ passesInOrder
            /\ FileHeader.e_shoff = Last(OS).at
            /\ FileHeader.e_shnum = Len(SectionHeaders)
            /\ Last(OS).size = 64 * Len(SectionHeaders)
            /\ FileHeader.e_shstrndx = 1
            /\ SectionHeaders[FileHeader.e_shstrndx + 1].sh_type = "SHT_STRTAB"
            /\ SectionHeaders[1].sh_type = "SHT_NULL"
            /\ SectionHeaders[3].sh_type = "SHT_SYMTAB")
    /\ [][/\ tableWritten => SectionHeaders' = SectionHeaders /\ OS' = OS
          /\ FileHeader' # FileHeader => pc \in { "header", "finish" }]_vars

\* A file with a group, a section with relocations and more headers than the
\* standard three was written to its end.
C21_Witness ==
    /\ succeeded
    /\ Len(SectionHeaders) > 4
    /\ FileHeader.e_shoff > 64
    /\ \E i \in bodyWrites : OS[i].what[1] = "group"
    /\ \E i \in bodyWrites : OS[i].what[1] = "rela"

-----------------------------------------------------------------------------
(* Properties of the loop over the ticket members. *)

\* The contributions the member last processed made to the output section
\* its OutputSections entry for Key names, for its section of kind Key.
contributionsOf(Key) ==
    { c \in Range(Sections[OutputSections[Key].section].contributions) :
        c.member = Len(processed) /\ c.kind = Key }

\* The member last processed went through both loops over its fragment.
memberPlaced ==
    /\ processed # << >>
    /\ FragmentFound(Last(processed))
    /\ Last(processed).linkage # "common"

\* Every section of the member's fragment selected an output section of its own.
ownOutputSections ==
    \A Key \in DOMAIN OutputSections : \A Other \in DOMAIN OutputSections :
        Key # Other => OutputSections[Key].section # OutputSections[Other].section

\* C22: for every section of the fragment of the member last processed, the
\* offset recorded in OutputSections[Key] by the first loop is the offset at
\* which append() placed that section's bytes.
C22_RecordedOffsets ==
    memberPlaced =>
        \A Key \in DOMAIN OutputSections :
            /\ contributionsOf(Key) # {}
            /\ \A c \in contributionsOf(Key) :
                  c.offset = OutputSections[Key].offset

-----------------------------------------------------------------------------
(* Properties of the hashing of references to globals. *)

\* The globals of the module that are a global variable with a name, or an
\* alias of one.
namesOf(Id) == variableNames(Constant(GlobalRef(Id)), Globals["f"])

NamedVariables == { id \in DOMAIN Globals : namesOf(id) \ { "" } # {} }

\* The two functions hashed differ in exactly the global an operand of
\* their instruction refers to: global A against global B.
operandsRefer(A, B) ==
    /\ functionsHashed
    /\ subjects[1].global = AddressOfGlobal(A)
    /\ subjects[2].global = AddressOfGlobal(B)

\* C23: two functions whose instruction operands refer to differently named
\* global variables of the same type (or to aliases of such variables) are
\* fed as different byte sequences, the name of the variable being part of
\* what valueHash feeds.
C23_NamedGlobalOperands ==
    \A A \in NamedVariables : \A B \in NamedVariables :
        operandsRefer(A, B)
          /\ namesOf(A) # namesOf(B)
          => results[1].Hash # results[2].Hash

\* The constant refers to a global that is not a global variable with a
\* definitive initializer: a function, an alias or a declaration.
refersToPlainGlobal(C) ==
    /\ C # NoInitializer
    /\ C[1] = "GlobalValue"
    /\ ~ hasDefinitiveInitializer(Globals[C[2]])

\* The two globals hashed are of class Isa and differ in exactly the global
\* their Field refers to, neither being a variable with a definitive
\* initializer.
differInReferent(Isa, Field) ==
    /\ hashed
    /\ subjects[1].global.isa = Isa
    /\ subjects[2].global.isa = Isa
    /\ subjects[1].global[Field] # subjects[2].global[Field]
    /\ refersToPlainGlobal(subjects[1].global[Field])
    /\ refersToPlainGlobal(subjects[2].global[Field])
    /\ sameExcept(subjects[1].global, subjects[2].global, { Field })

\* C24: two global variables that differ only in which function, alias or
\* declaration their initializer names, and two aliases that differ only in
\* which such global their aliasee names, are fed as different byte
\* sequences.
C24_DistinctReferents ==
    /\ differInReferent("GlobalVariable", "initializer")
           /\ hashesInitializer(subjects[1].global)
         => results[1].Hash # results[2].Hash
    /\ differInReferent("GlobalAlias", "aliasee")
         => results[1].Hash # results[2].Hash

-----------------------------------------------------------------------------
(* Properties of the hashing of integers. *)

RECURSIVE lastIndexOf(_, _)
\* The last position of token T in the sequence H, 0 when there is none.
lastIndexOf(H, T) ==
    IF H = << >> THEN 0
    ELSE IF H[Len(H)] = T THEN Len(H)
    ELSE lastIndexOf(SubSeq(H, 1, Len(H) - 1), T)

\* What the last call of APIntHash fed to H.
fedByAPIntHash(H) == SubSeq(H, lastIndexOf(H, "TAG_APInt"), Len(H))

isPrefix(A, B) == Len(A) <= Len(B) /\ SubSeq(B, 1, Len(A)) = A

\* The words of the integer that is the initializer of the variable hashed
\* in turn k.
wordsOf(k) == subjects[k].global.initializer[3]

\* Two variables were hashed whose initializers are integers, the last thing
\* either computation fed.
integersHashed ==
    /\ variablesHashed
    /\ \A k \in { 1, 2 } :
          /\ hashesInitializer(subjects[k].global)
          /\ subjects[k].global.initializer[1] = "ConstantIntVal"

\* C25 as stated: of two integers with different numbers of words, what
\* APIntHash feeds for one is never a prefix of what it feeds for the other.
C25_LengthPrefixed ==
    integersHashed /\ Len(wordsOf(1)) # Len(wordsOf(2)) =>
        /\ ~ isPrefix(fedByAPIntHash(results[1].Hash),
                      fedByAPIntHash(results[2].Hash))
        /\ ~ isPrefix(fedByAPIntHash(results[2].Hash),
                      fedByAPIntHash(results[1].Hash))

\* C25, amended: APIntHash feeds TAG_APInt and then the 64-bit words in
\* order, and no length; two integers with different numbers of words are
\* still fed as different sequences by constantHash, which feeds the type of
\* the integer, with its width, ahead of the words.
C25_WordsOnly ==
    integersHashed =>
        /\ \A k \in { 1, 2 } :
              fedByAPIntHash(results[k].Hash)
                  = tag("TAG_APInt") \o wordsHash(wordsOf(k))
        /\ Len(wordsOf(1)) # Len(wordsOf(2))
              => results[1].Hash # results[2].Hash

\* An integer of one word and an integer of two words were hashed, and what
\* was fed for the first is a prefix of what was fed for the second.
C25_Witness ==
    /\ integersHashed
    /\ Len(wordsOf(1)) = 1
    /\ Len(wordsOf(2)) = 2
    /\ isPrefix(fedByAPIntHash(results[1].Hash),
                fedByAPIntHash(results[2].Hash))

-----------------------------------------------------------------------------
(* Properties of the hashing of index lists. *)

\* The function F without the index lists of its instructions, and without
\* the places where they are stored.
withoutIndices(F) ==
    [ F EXCEPT
        !.blocks = [ k \in DOMAIN @ |->
                       [ @[k] EXCEPT
                           !.insts = [ j \in DOMAIN @ |->
                                         [ @[j] EXCEPT !.indices = << >>,
                                                       !.storage = 0 ] ] ] ] ]

\* The index lists of the instructions of F, in the order of its blocks.
indexLists(F) ==
    [ k \in DOMAIN F.blocks |->
        [ j \in DOMAIN F.blocks[k].insts |-> F.blocks[k].insts[j].indices ] ]

\* Two functions with an insertvalue were hashed that are equal but for the
\* index lists of their instructions.
indexListsHashed ==
    /\ functionsHashed
    /\ hasOpcode(subjects[1].global, { "entry" }, "InsertValue")
    /\ withoutIndices(subjects[1].global) = withoutIndices(subjects[2].global)

\* C26: two functions whose insertvalue and extractvalue instructions are
\* otherwise equal are fed as the same byte sequence exactly when the index
\* lists of the instructions are equal.
C26_IndexListBytes ==
    indexListsHashed =>
        ( results[1].Hash = results[2].Hash
            <=> indexLists(subjects[1].global) = indexLists(subjects[2].global) )

-----------------------------------------------------------------------------
(* Properties of the hashing of the signature. *)

\* The function has a parameter, or returns void.
feedsCallingConv(F) == Len(F.params) # 0 \/ F.returnType = VoidTy

\* The sequence H holds TAG_Signature_CC followed by the calling
\* convention CC.
holdsCallingConv(H, CC) ==
    \E i \in 1 .. Len(H) - 1 :
        H[i] = "TAG_Signature_CC" /\ H[i + 1] = update(CC)[1]

\* The two functions hashed differ in their calling convention only, and
\* were hashed in the same layout.
differInCallingConv ==
    /\ functionsHashed
    /\ subjects[1].layout = subjects[2].layout
    /\ subjects[1].global.callingConv # subjects[2].global.callingConv
    /\ sameExcept(subjects[1].global, subjects[2].global, { "callingConv" })

-----------------------------------------------------------------------------
(* Properties of the walk over the blocks of a function. *)

\* The blocks hashed, in the order of the trail T.
blocksHashed(T) ==
    LET taken == SelectSeq(T, LAMBDA e : e[1] = "block")
    IN  [ k \in DOMAIN taken |-> taken[k][2] ]

\* No element is twice in the sequence s.
noRepeats(s) == \A i \in DOMAIN s : \A j \in DOMAIN s : s[i] = s[j] => i = j

\* The successors Succs that are not in Visited, each once, in their order.
RECURSIVE unvisited(_, _)
unvisited(Succs, Visited) ==
    IF Succs = << >> THEN << >>
    ELSE IF Last(Succs) \in Visited
              \/ Last(Succs) \in Range(SubSeq(Succs, 1, Len(Succs) - 1))
    THEN unvisited(SubSeq(Succs, 1, Len(Succs) - 1), Visited)
    ELSE Append(unvisited(SubSeq(Succs, 1, Len(Succs) - 1), Visited),
                Last(Succs))

\* The walk of the function hashed in turn k started with the entry block and
\* took every block the entry block reaches once, and no other block.
walked(k) ==
    LET F     == subjects[k].global
        order == blocksHashed(results[k].trail)
    IN  /\ order # << >>
        /\ order[1] = F.blocks[1].id
        /\ noRepeats(order)
        /\ Range(order) = reachable(F)

\* The second function hashed is the first with its block list in another
\* order.
blocksReordered ==
    /\ functionsHashed
    /\ subjects[1].layout = subjects[2].layout
    /\ subjects[2].global = reordered(subjects[1].global)
    /\ subjects[2].global # subjects[1].global

\* The steps of the walk: the block taken is the one pushed last, and the
\* successors of its terminator that were not seen before are pushed above
\* the blocks that wait, in the order of the terminator.
walkSteps ==
    /\ hstep = "run" /\ Len(trail') = Len(trail) + 1
           /\ Last(trail')[1] = "block" =>
          /\ FnBBs # << >>
          /\ Last(trail')[2] = Last(FnBBs)
          /\ FnBBs' = SubSeq(FnBBs, 1, Len(FnBBs) - 1)
          /\ VisitedBBs' = VisitedBBs
    /\ hstep = "run" /\ hstep' = "run" /\ trail' = trail
           /\ (FnBBs' # FnBBs \/ VisitedBBs' # VisitedBBs) =>
          LET BB    == Last(blocksHashed(trail))
              Succs == Last(blockOf(Subject, BB).insts).successors
          IN  /\ FnBBs' = FnBBs \o unvisited(Succs, VisitedBBs)
              /\ VisitedBBs' = VisitedBBs \cup Range(Succs)

\* C28: the walk over the blocks of a function ends; it starts with the
\* entry block and hashes every block the entry block reaches exactly once
\* and no other block; the block hashed next is the one pushed last, so the
\* order follows the successors of the terminators and not the block list:
\* a function with its block list reordered is walked in the same order and
\* fed as the same sequence.
C28_CFGWalk ==
    /\ <>hashed
    /\ [](\A k \in DOMAIN results :
             subjects[k].global.isa = "Function" => walked(k))
    /\ [](blocksReordered =>
             /\ blocksHashed(results[1].trail) = blocksHashed(results[2].trail)
             /\ results[1].Hash = results[2].Hash)
    /\ [][walkSteps]_vars

\* The function whose entry branches to two blocks that join was hashed
\* against itself with its block list reordered: both walks took the blocks
\* in the order entry, else, join, then, which is the order of neither list.
C28_Witness ==
    /\ blocksReordered
    /\ subjects[1].global = Diamond
    /\ blocksHashed(results[2].trail) = << "entry", "else", "join", "then" >>

-----------------------------------------------------------------------------
(* Properties of the groups. *)

\* State.writeGroupSections(OS) is about to run, or has run.
groupsDue ==
    \/ pc = "sections" /\ cursor = Cardinality(DOMAIN Sections)
    \/ groupsWritten

\* The headers of the table that were built for the group of key a.
headersOfGroup(a) ==
    { i \in DOMAIN SectionHeaders :
        /\ SectionHeaders[i].sh_type = "SHT_GROUP"
        /\ SectionHeaders[i].owner = a }

\* The groups that hold the output section Id, and the places it has in the
\* Members of the group of key a.
groupsOf(Id) == { a \in DOMAIN Groups : Id \in Range(Groups[a].Members) }

placesIn(a, Id) == { k \in DOMAIN Groups[a].Members : Groups[a].Members[k] = Id }

\* C29: every group has a member; every output section is in at most one
\* group, once, and that is the group it is attached to; no group has more
\* than one header; and when writeGroupSections runs every group has a
\* SectionIndex that is not 0, is below the number of section headers and is
\* that of an SHT_GROUP header, its own, no two groups having the same.
C29_GroupAsserts ==
    /\ \A a \in DOMAIN Groups :
          /\ Len(Groups[a].Members) >= 1
          /\ Range(Groups[a].Members) \subseteq DOMAIN Sections
          /\ Cardinality(headersOfGroup(a)) <= 1
    /\ \A Id \in DOMAIN Sections :
          /\ Cardinality(groupsOf(Id)) <= 1
          /\ \A a \in groupsOf(Id) :
                Cardinality(placesIn(a, Id)) = 1 /\ Sections[Id].group = a
          /\ Sections[Id].group # null => Sections[Id].group \in groupsOf(Id)
    /\ groupsDue =>
          \A a \in DOMAIN Groups :
              /\ Groups[a].SectionIndex # 0
              /\ Groups[a].SectionIndex < Len(SectionHeaders)
              /\ SectionHeaders[Groups[a].SectionIndex + 1].sh_type = "SHT_GROUP"
              /\ headersOfGroup(a) = { Groups[a].SectionIndex + 1 }
              /\ \A b \in DOMAIN Groups :
                    a # b => Groups[a].SectionIndex # Groups[b].SectionIndex

\* writeGroupSections has run for two groups, one of them with two member
\* sections and one header.
C29_Witness ==
    /\ groupsWritten
    /\ Cardinality(DOMAIN Groups) >= 2
    /\ \E a \in DOMAIN Groups :
          /\ Len(Groups[a].Members) >= 2
          /\ Cardinality(headersOfGroup(a)) = 1

-----------------------------------------------------------------------------
(* Properties of the numbering tables. *)

\* The table T maps its keys onto 0 .. n - 1, n being their number; no two
\* of its n keys then have the same number.
dense(T) == { T[k] : k \in DOMAIN T } = 0 .. Cardinality(DOMAIN T) - 1

\* From the table T to the table U no key is removed or renumbered, and a
\* key that is added gets the number of keys there were.
grown(T, U) ==
    /\ \A k \in DOMAIN T : k \in DOMAIN U /\ U[k] = T[k]
    /\ \A k \in DOMAIN U \ DOMAIN T : U[k] = Cardinality(DOMAIN T)

\* A step inside one computation.
numberingSteps ==
    hstep = "run" /\ hstep' = "run" =>
        /\ grown(sn_map, sn_map')
        /\ grown(global_numbers, global_numbers')

\* C30: during a computation sn_map and global_numbers map their keys onto
\* 0 .. n - 1; a key gets the number of the keys numbered before it, and its
\* number is not changed or removed afterwards; the tables a computation
\* ends with are dense as well.
C30_DenseNumbering ==
    /\ [](/\ dense(sn_map)
          /\ dense(global_numbers)
          /\ \A k \in DOMAIN results :
                dense(results[k].sn_map) /\ dense(results[k].global_numbers))
    /\ [][numberingSteps]_vars

\* A function was hashed that numbered three values or more and a global,
\* and a value that was met again kept its number.
C30_Witness ==
    /\ functionsHashed
    /\ Cardinality(DOMAIN results[2].sn_map) >= 3
    /\ Cardinality(DOMAIN results[2].global_numbers) >= 1
    /\ results[2].sn_map[Argument("a0")] = 0

====
